---- MODULE Spec2Model ----
(***************************************************************************)
(* Bulk order creation (orderBulkCreate): a batch of order inputs is       *)
(* validated order by order, reconciled against the stock rows, filtered   *)
(* by the batch error policy and persisted.  The mutation itself is not    *)
(* part of the sources at hand; its behaviour is taken from the test suite *)
(* test_order_bulk_create.py where a test pins it, and from the written    *)
(* specification elsewhere.                                                *)
(***************************************************************************)
EXTENDS Integers, Sequences, FiniteSets, TLC

VARIABLES
    batchState,        \* IDLE, VALIDATING, COMMITTING, REJECTED, DONE, DENIED
    orders,            \* the batch: sequence of order inputs
    errorPolicy,       \* ErrorPolicyEnum
    stockUpdatePolicy, \* StockUpdatePolicyEnum
    orders_data,       \* one assembled order (OrderBulkClass) per validated input
    reconciled,        \* number of orders the stock reconciler has looked at
    stocks_map,        \* the reconciler's working copy of the stock rows
    saved,             \* number of orders the commit loop has looked at
    stock,             \* Stock table: (variant, warehouse) -> quantity
    initial_stock,     \* the Stock table as it was before the call
    db,                \* Order, OrderLine, Address, OrderEvent, ... tables
    results,           \* the returned results, one per input order
    count,             \* the returned count
    user_permissions,  \* the permissions the caller holds
    directory,         \* the users and product variants that can be looked up
    row_lock,          \* who holds the lock of each stock row: "", batch, other
    batch_tx,          \* the commit of one order, row by row
    other_op           \* a stock operation outside the pipeline, on one row

\* What only the row-by-row commit and the outside operation write.
locking_vars == <<row_lock, batch_tx, other_op>>

vars == <<batchState, orders, errorPolicy, stockUpdatePolicy, orders_data,
          reconciled, stocks_map, saved, stock, initial_stock, db, results,
          count, user_permissions, directory, row_lock, batch_tx, other_op>>

----------------------------------------------------------------------------
(* Bounds of the model *)

MaxOrders == 2
MaxLines == 2
MaxQuantity == 2
MaxStock == 2

(* Program constants *)

MAX_NOTE_LENGTH == 200
MINUTES_DIFF == 5

None == 0

REJECT_EVERYTHING == "REJECT_EVERYTHING"
REJECT_FAILED_ROWS == "REJECT_FAILED_ROWS"
IGNORE_FAILED == "IGNORE_FAILED"
ErrorPolicyEnum == {REJECT_EVERYTHING, REJECT_FAILED_ROWS, IGNORE_FAILED}

\* The permissions the mutation asks for.
manage_orders == "manage_orders"
manage_orders_import == "manage_orders_import"
RequiredPermissions == {manage_orders, manage_orders_import}

SKIP == "SKIP"
UPDATE == "UPDATE"
FORCE == "FORCE"
StockUpdatePolicyEnum == {SKIP, UPDATE, FORCE}

----------------------------------------------------------------------------
(* Generic helpers *)

RECURSIVE Flatten(_)
Flatten(ss) == IF ss = <<>> THEN <<>> ELSE Head(ss) \o Flatten(Tail(ss))

----------------------------------------------------------------------------
(* Input fixtures *)

\* Amounts of money are kept in hundredths of the currency unit.
Price(gross, net) == [gross |-> gross * 100, net |-> net * 100]

\* One order line of the input; the metadata lists are given by their keys.
LineInput(variant, warehouse, quantity, mdKeys, pmdKeys) ==
    [variantId |-> variant, variantSku |-> None, warehouse |-> warehouse,
     quantity |-> quantity,
     totalPrice |-> Price(120, 100),
     undiscountedTotalPrice |-> Price(120, 100),
     taxClassMetadata |-> mdKeys, taxClassPrivateMetadata |-> pmdKeys]

line(variant, warehouse, quantity) ==
    LineInput(variant, warehouse, quantity, <<"md key">>, <<"pmd key">>)

\* One note of the input; the message is given by its length.
NoteInput(length, userId, appId) ==
    [message |-> length, userId |-> userId, appId |-> appId]

note == NoteInput(12, 1, None)

fulfillment_line(variant, warehouse, quantity, orderLineIndex) ==
    [variantId |-> variant, warehouse |-> warehouse, quantity |-> quantity,
     orderLineIndex |-> orderLineIndex]

transaction == [currency |-> "PLN", metadata |-> <<"test-1">>]

\* Identifiers are opaque tokens: the customer of the fixtures, the two
\* product variants and the values no directory entry carries.
customer_user == [id |-> 1, email |-> 11, external_reference |-> 21]

product_variant_list == {[id |-> 1, sku |-> 31], [id |-> 2, sku |-> 32]}

non_existing_email == 12
non_existing_sku == 39

user == [id |-> customer_user.id, email |-> None, externalReference |-> None]

delivery_method ==
    [shippingMethodId |-> 1, warehouseId |-> None,
     shippingPrice |-> Price(120, 100)]

\* An address is given by the fields it carries.
RequiredAddressFields == {"streetAddress1", "city", "postalCode", "country"}

graphql_address_data == RequiredAddressFields \cup {"firstName", "lastName"}

\* The order of the fixture, with the parts the tests vary as parameters.
OrderInput(createdAt, lines, notes, fulfillments) ==
    [createdAt |-> createdAt, currency |-> "PLN", user |-> user,
     billingAddress |-> graphql_address_data,
     shippingAddress |-> graphql_address_data,
     deliveryMethod |-> delivery_method, lines |-> lines,
     notes |-> notes, fulfillments |-> fulfillments,
     transactions |-> <<transaction>>]

order_bulk_input(variant, warehouse, quantity) ==
    OrderInput(0, <<line(variant, warehouse, quantity)>>, <<note>>,
               <<<<fulfillment_line(variant, warehouse, quantity, 0)>>>>)

order_bulk_input_with_multiple_order_lines_and_fulfillments_with_stocks ==
    OrderInput(0,
        <<line(1, 1, 10), line(2, 1, 50), line(2, 2, 20)>>,
        <<note>>,
        << <<fulfillment_line(1, 1, 5, 0)>>,
           <<fulfillment_line(1, 1, 5, 0), fulfillment_line(2, 1, 33, 1),
             fulfillment_line(2, 2, 17, 2)>> >>)

----------------------------------------------------------------------------
(* Errors *)

\* The message of an error is kept as what it names: a variant and a
\* warehouse, an order line index, or a lookup key and its value.
OrderBulkError(code, field, critical, variant, warehouse) ==
    [code |-> code, field |-> field, critical |-> critical,
     variant |-> variant, warehouse |-> warehouse,
     index |-> None, key |-> "", value |-> None]

Codes(errors) == {errors[i].code : i \in DOMAIN errors}

----------------------------------------------------------------------------
(* Identifier resolver *)

\* Input key -> key of the directory entry, per entity type.
UserKeyMap ==
    [id |-> "id", email |-> "email", externalReference |-> "external_reference"]

VariantKeyMap == [variantId |-> "id", variantSku |-> "sku"]

\* The keys of the input that carry a value.
ProvidedKeys(input, key_map) == {k \in DOMAIN key_map : input[k] # None}

\* The directory entries of the model that carry the provided values.
Lookup(input, model, key_map) ==
    {instance \in directory[model] :
        \A k \in ProvidedKeys(input, key_map) : instance[key_map[k]] = input[k]}

\* Variant: several keys may be given, the entry has to carry them all.
GetInstanceErrors_ManyKeys(input, model, key_map) ==
    LET provided == ProvidedKeys(input, key_map) IN
    IF provided = {}
    THEN <<OrderBulkError("REQUIRED", "", TRUE, None, None)>>
    ELSE IF Lookup(input, model, key_map) = {}
    THEN LET given == CHOOSE k \in provided : TRUE IN
         <<[OrderBulkError("NOT_FOUND", "", TRUE, None, None)
              EXCEPT !.key = key_map[given], !.value = input[given]]>>
    ELSE <<>>

\* Exactly one key has to be given, and it has to resolve.
GetInstanceErrors(input, model, key_map) ==
    LET provided == ProvidedKeys(input, key_map) IN
    IF Cardinality(provided) > 1
    THEN <<OrderBulkError("TOO_MANY_IDENTIFIERS", "", TRUE, None, None)>>
    ELSE IF provided = {}
    THEN <<OrderBulkError("REQUIRED", "", TRUE, None, None)>>
    ELSE IF Lookup(input, model, key_map) = {}
    THEN LET given == CHOOSE k \in provided : TRUE IN
         <<[OrderBulkError("NOT_FOUND", "", TRUE, None, None)
              EXCEPT !.key = key_map[given], !.value = input[given]]>>
    ELSE <<>>

\* The id of the resolved entry, None when the reference does not resolve.
get_instance(input, model, key_map) ==
    IF Cardinality(ProvidedKeys(input, key_map)) = 1
       /\ Lookup(input, model, key_map) # {}
    THEN (CHOOSE instance \in Lookup(input, model, key_map) : TRUE).id
    ELSE None

----------------------------------------------------------------------------
(* Field validators and the order assembler, one order at a time *)

\* Variant: a user reference without any key is an anonymous order.
UserErrors_AnonymousAllowed(order_input) ==
    IF ProvidedKeys(order_input.user, UserKeyMap) = {} THEN <<>>
    ELSE GetInstanceErrors(order_input.user, "User", UserKeyMap)

\* The user of the order, by id, email or external reference.
UserErrors(order_input) ==
    GetInstanceErrors(order_input.user, "User", UserKeyMap)

\* Variant: a warehouse next to a shipping method is let through.
DeliveryMethodErrors_BothAllowed(order_input) ==
    IF order_input.deliveryMethod.shippingMethodId = None
       /\ order_input.deliveryMethod.warehouseId = None
    THEN <<OrderBulkError("REQUIRED", "delivery_method", TRUE, None, None)>>
    ELSE <<>>

\* Delivery method: a shipping method or a warehouse, not both.
DeliveryMethodErrors(order_input) ==
    LET dm == order_input.deliveryMethod IN
    IF dm.shippingMethodId # None /\ dm.warehouseId # None
    THEN <<OrderBulkError("TOO_MANY_IDENTIFIERS", "delivery_method", TRUE,
                          None, None)>>
    ELSE IF dm.shippingMethodId = None /\ dm.warehouseId = None
    THEN <<OrderBulkError("REQUIRED", "delivery_method", TRUE, None, None)>>
    ELSE <<>>

\* The delivery method that is stored: nothing when the input is refused.
StoredDeliveryMethod(order_input) ==
    IF DeliveryMethodErrors(order_input) # <<>>
    THEN [shipping_method |-> None, collection_point |-> None]
    ELSE [shipping_method |-> order_input.deliveryMethod.shippingMethodId,
          collection_point |-> order_input.deliveryMethod.warehouseId]

\* Address validity: the required fields have to be there.
AddressErrors(address, field) ==
    IF ~(RequiredAddressFields \subseteq address)
    THEN <<OrderBulkError("INVALID", field, TRUE, None, None)>>
    ELSE <<>>

\* Variant: the shipping address is looked at only when the billing address
\* is fine.
OrderAddressErrors_FirstOnly(order_input) ==
    IF AddressErrors(order_input.billingAddress, "billing_address") # <<>>
    THEN AddressErrors(order_input.billingAddress, "billing_address")
    ELSE AddressErrors(order_input.shippingAddress, "shipping_address")

\* The two addresses are validated independently, billing first.
OrderAddressErrors(order_input) ==
    AddressErrors(order_input.billingAddress, "billing_address")
    \o AddressErrors(order_input.shippingAddress, "shipping_address")

\* Date sanity: createdAt is the distance from now in minutes.
DateErrors(order_input) ==
    IF order_input.createdAt > MINUTES_DIFF
    THEN <<OrderBulkError("FUTURE_DATE", "created_at", TRUE, None, None)>>
    ELSE <<>>

\* Metadata key validity of one metadata list.
MetadataErrors(keys, field) ==
    IF \E i \in DOMAIN keys : keys[i] = ""
    THEN <<OrderBulkError("METADATA_KEY_REQUIRED", field, FALSE, None, None)>>
    ELSE <<>>

\* The metadata that is stored: nothing when a key is empty.
StoredMetadata(keys) ==
    IF \E i \in DOMAIN keys : keys[i] = "" THEN <<>> ELSE keys

\* Variant: the quotient is cut off after two decimal places.
quantize_price_Truncated(amount, quantity) == amount \div quantity

\* amount / quantity rounded to two decimal places, halves upwards.
quantize_price(amount, quantity) == (2 * amount + quantity) \div (2 * quantity)

\* Quantity validity: an integer of at least 1.
QuantityErrors(line_input) ==
    IF line_input.quantity < 1
    THEN <<OrderBulkError("INVALID_QUANTITY", "quantity", TRUE, None, None)>>
    ELSE <<>>

\* Net may not exceed gross, on the total and on the undiscounted total.
PriceErrors(line_input) ==
    (IF line_input.totalPrice.net > line_input.totalPrice.gross
     THEN <<OrderBulkError("PRICE_ERROR", "total_price", TRUE, None, None)>>
     ELSE <<>>)
    \o (IF line_input.undiscountedTotalPrice.net
               > line_input.undiscountedTotalPrice.gross
        THEN <<OrderBulkError("PRICE_ERROR", "undiscounted_total_price", TRUE,
                              None, None)>>
        ELSE <<>>)

LineCalculationErrors(line_input) ==
    QuantityErrors(line_input) \o PriceErrors(line_input)

\* The unit prices of a line: nothing when the line is refused.
UnitPrice(line_input, total) ==
    IF LineCalculationErrors(line_input) # <<>> THEN [gross |-> None, net |-> None]
    ELSE [gross |-> quantize_price(total.gross, line_input.quantity),
          net |-> quantize_price(total.net, line_input.quantity)]

LineErrors(line_input) ==
    GetInstanceErrors(line_input, "ProductVariant", VariantKeyMap)
    \o LineCalculationErrors(line_input)
    \o MetadataErrors(line_input.taxClassMetadata, "tax_class_metadata")
    \o MetadataErrors(line_input.taxClassPrivateMetadata,
                      "tax_class_private_metadata")

\* Variant: the length of the message is not looked at.
NoteErrors_NoLengthCheck(note_input) ==
    IF note_input.userId # None /\ note_input.appId # None
    THEN <<OrderBulkError("TOO_MANY_IDENTIFIERS", "app_id", FALSE, None, None)>>
    ELSE <<>>

\* Note validation: an over-length message, or an author given twice.
NoteErrors(note_input) ==
    IF note_input.message > MAX_NOTE_LENGTH
    THEN <<OrderBulkError("NOTE_LENGTH", "message", FALSE, None, None)>>
    ELSE IF note_input.userId # None /\ note_input.appId # None
    THEN <<OrderBulkError("TOO_MANY_IDENTIFIERS", "app_id", FALSE, None, None)>>
    ELSE <<>>

\* Variant: an index without an order line does not reject the order.
FulfillmentLineErrors_IndexSoft(order_input, fl) ==
    IF fl.orderLineIndex + 1 > Len(order_input.lines)
    THEN <<[OrderBulkError("NO_RELATED_ORDER_LINE", "order_line_index", FALSE,
                           None, None) EXCEPT !.index = fl.orderLineIndex]>>
    ELSE LET ol == order_input.lines[fl.orderLineIndex + 1]
             variant == get_instance(ol, "ProductVariant", VariantKeyMap)
         IN
         IF variant = None THEN <<>>
         ELSE IF ol.warehouse # fl.warehouse
         THEN <<OrderBulkError("ORDER_LINE_FULFILLMENT_LINE_MISMATCH",
                               "warehouse", TRUE, None, None)>>
         ELSE IF variant # fl.variantId
         THEN <<OrderBulkError("ORDER_LINE_FULFILLMENT_LINE_MISMATCH",
                               "variant_id", TRUE, None, None)>>
         ELSE <<>>

\* Variant: the variant is compared before the warehouse.
FulfillmentLineErrors_VariantFirst(order_input, fl) ==
    IF fl.orderLineIndex + 1 > Len(order_input.lines)
    THEN <<[OrderBulkError("NO_RELATED_ORDER_LINE", "order_line_index", TRUE,
                           None, None) EXCEPT !.index = fl.orderLineIndex]>>
    ELSE LET ol == order_input.lines[fl.orderLineIndex + 1]
             variant == get_instance(ol, "ProductVariant", VariantKeyMap)
         IN
         IF variant = None THEN <<>>
         ELSE IF variant # fl.variantId
         THEN <<OrderBulkError("ORDER_LINE_FULFILLMENT_LINE_MISMATCH",
                               "variant_id", TRUE, None, None)>>
         ELSE IF ol.warehouse # fl.warehouse
         THEN <<OrderBulkError("ORDER_LINE_FULFILLMENT_LINE_MISMATCH",
                               "warehouse", TRUE, None, None)>>
         ELSE <<>>

\* Cross validation of one fulfillment line against the order's lines.
FulfillmentLineErrors(order_input, fl) ==
    IF fl.orderLineIndex + 1 > Len(order_input.lines)
    THEN <<[OrderBulkError("NO_RELATED_ORDER_LINE", "order_line_index", TRUE,
                           None, None) EXCEPT !.index = fl.orderLineIndex]>>
    ELSE LET ol == order_input.lines[fl.orderLineIndex + 1]
             variant == get_instance(ol, "ProductVariant", VariantKeyMap)
         IN
         IF variant = None THEN <<>>
         ELSE IF ol.warehouse # fl.warehouse
         THEN <<OrderBulkError("ORDER_LINE_FULFILLMENT_LINE_MISMATCH",
                               "warehouse", TRUE, None, None)>>
         ELSE IF variant # fl.variantId
         THEN <<OrderBulkError("ORDER_LINE_FULFILLMENT_LINE_MISMATCH",
                               "variant_id", TRUE, None, None)>>
         ELSE <<>>

\* Sum of the quantities of the fulfillment lines that resolve to the line
\* at position idx (1-based), over all fulfillments of the order.
RECURSIVE FulfilledBy(_, _, _)
FulfilledBy(order_input, fls, idx) ==
    IF fls = <<>> THEN 0
    ELSE (IF Head(fls).orderLineIndex + 1 = idx
             /\ FulfillmentLineErrors(order_input, Head(fls)) = <<>>
          THEN Head(fls).quantity ELSE 0)
         + FulfilledBy(order_input, Tail(fls), idx)

\* Variant: only the first fulfillment is counted.
QuantityFulfilled_FirstFulfillment(order_input, idx) ==
    IF order_input.fulfillments = <<>> THEN 0
    ELSE FulfilledBy(order_input, Head(order_input.fulfillments), idx)

QuantityFulfilled(order_input, idx) ==
    FulfilledBy(order_input, Flatten(order_input.fulfillments), idx)

TransactionErrors(order_input, t) ==
    (IF t.currency # order_input.currency
     THEN <<OrderBulkError("INCORRECT_CURRENCY", "amount_authorized", TRUE,
                           None, None)>>
     ELSE <<>>)
    \o (IF \E i \in DOMAIN t.metadata : t.metadata[i] = ""
        THEN <<OrderBulkError("METADATA_KEY_REQUIRED", "transaction", TRUE,
                              None, None)>>
        ELSE <<>>)

\* All errors of one order, in encounter order.
OrderErrors(order_input) ==
    LET fls == Flatten(order_input.fulfillments) IN
    DateErrors(order_input)
    \o UserErrors(order_input)
    \o OrderAddressErrors(order_input)
    \o DeliveryMethodErrors(order_input)
    \o Flatten([i \in DOMAIN order_input.lines |->
                  LineErrors(order_input.lines[i])])
    \o Flatten([i \in DOMAIN order_input.notes |->
                  NoteErrors(order_input.notes[i])])
    \o Flatten([i \in DOMAIN fls |->
                  FulfillmentLineErrors(order_input, fls[i])])
    \o Flatten([i \in DOMAIN order_input.transactions |->
                  TransactionErrors(order_input, order_input.transactions[i])])

IsCritical(errors) == \E i \in DOMAIN errors : errors[i].critical

\* The assembled order line.
OrderLine(order_input, idx) ==
    LET l == order_input.lines[idx] IN
    [variant |-> get_instance(l, "ProductVariant", VariantKeyMap),
     warehouse |-> l.warehouse,
     quantity |-> l.quantity,
     quantity_fulfilled |-> QuantityFulfilled(order_input, idx),
     total_price |-> l.totalPrice,
     unit_price |-> UnitPrice(l, l.totalPrice),
     undiscounted_unit_price |-> UnitPrice(l, l.undiscountedTotalPrice),
     tax_class_metadata |-> StoredMetadata(l.taxClassMetadata),
     tax_class_private_metadata |-> StoredMetadata(l.taxClassPrivateMetadata)]

\* Variant: every note becomes an event.
KeptNotes_All(notes) == notes

\* The notes that become NOTE_ADDED events: the ones without an error.
RECURSIVE KeptNotes(_)
KeptNotes(notes) ==
    IF notes = <<>> THEN <<>>
    ELSE (IF NoteErrors(Head(notes)) = <<>> THEN <<Head(notes)>> ELSE <<>>)
         \o KeptNotes(Tail(notes))

\* The assembled fulfillments: fulfillment_order counts from 1 in input order.
Fulfillments(order_input) ==
    [f \in 1..Len(order_input.fulfillments) |->
        [fulfillment_order |-> f,
         lines |-> [k \in 1..Len(order_input.fulfillments[f]) |->
                     [order_line |-> order_input.fulfillments[f][k].orderLineIndex + 1,
                      quantity |-> order_input.fulfillments[f][k].quantity]]]]

\* Sum of the gross or net amounts of the totals of the lines.
RECURSIVE SumOfTotals(_, _)
SumOfTotals(lines, part) ==
    IF lines = <<>> THEN 0
    ELSE Head(lines).totalPrice[part] + SumOfTotals(Tail(lines), part)

\* Variant: the shipping price is part of the total.
OrderTotal_WithShipping(order_input) ==
    [gross |-> SumOfTotals(order_input.lines, "gross")
               + order_input.deliveryMethod.shippingPrice.gross,
     net |-> SumOfTotals(order_input.lines, "net")
             + order_input.deliveryMethod.shippingPrice.net]

\* The total of the order: the totals of its lines.
OrderTotal(order_input) ==
    [gross |-> SumOfTotals(order_input.lines, "gross"),
     net |-> SumOfTotals(order_input.lines, "net")]

\* create_single_order: the in-memory aggregate of one input order.
create_single_order(order_input) ==
    LET errors == OrderErrors(order_input) IN
    [errors |-> errors,
     is_critical_error |-> IsCritical(errors),
     order |-> TRUE,
     user |-> get_instance(order_input.user, "User", UserKeyMap),
     shipping_method |-> StoredDeliveryMethod(order_input).shipping_method,
     collection_point |-> StoredDeliveryMethod(order_input).collection_point,
     shipping_price |-> order_input.deliveryMethod.shippingPrice,
     total |-> OrderTotal(order_input),
     lines |-> [idx \in 1..Len(order_input.lines) |-> OrderLine(order_input, idx)],
     events |-> KeptNotes(order_input.notes),
     fulfillments |-> Fulfillments(order_input),
     transactions |-> Len(order_input.transactions)]

----------------------------------------------------------------------------
(* Stock reconciliation *)

PairOf(order_line) == <<order_line.variant, order_line.warehouse>>

\* Total ordered quantity of the lines on one (variant, warehouse) pair.
RECURSIVE QuantityOrdered(_, _)
QuantityOrdered(lines, pair) ==
    IF lines = <<>> THEN 0
    ELSE (IF PairOf(Head(lines)) = pair THEN Head(lines).quantity ELSE 0)
         + QuantityOrdered(Tail(lines), pair)

\* Variant: the ordered quantity is taken from the row.
QuantityToDecrement_Ordered(lines, pair) == QuantityOrdered(lines, pair)

\* Total fulfilled quantity of the lines on one (variant, warehouse) pair.
RECURSIVE QuantityToDecrement(_, _)
QuantityToDecrement(lines, pair) ==
    IF lines = <<>> THEN 0
    ELSE (IF PairOf(Head(lines)) = pair
          THEN Head(lines).quantity_fulfilled ELSE 0)
         + QuantityToDecrement(Tail(lines), pair)

\* Variant: the fulfilled quantity is compared with what the order has
\* ordered on the line's pair, over all its lines.
TooManyFulfillments_PerPair(order_data, idx) ==
    LET order_line == order_data.lines[idx] IN
    IF QuantityToDecrement(order_data.lines, PairOf(order_line))
          > QuantityOrdered(order_data.lines, PairOf(order_line))
    THEN <<OrderBulkError("INVALID_QUANTITY", "order_line", TRUE,
                          order_line.variant, order_line.warehouse)>>
    ELSE <<>>

\* More fulfilled than ordered on the line at position idx.
TooManyFulfillments(order_data, idx) ==
    LET order_line == order_data.lines[idx] IN
    IF order_line.quantity_fulfilled > order_line.quantity
    THEN <<OrderBulkError("INVALID_QUANTITY", "order_line", TRUE,
                          order_line.variant, order_line.warehouse)>>
    ELSE <<>>

\* Variant: only the existence of the row is checked.
StockLineErrors_ExistenceOnly(order_data, map, policy, order_line) ==
    IF PairOf(order_line) \notin DOMAIN map
    THEN <<OrderBulkError("NON_EXISTING_STOCK", "order_line", TRUE,
                          order_line.variant, order_line.warehouse)>>
    ELSE <<>>

\* Variant: the quantity is checked under FORCE as well.
StockLineErrors_ForceChecked(order_data, map, policy, order_line) ==
    LET pair == PairOf(order_line) IN
    IF pair \notin DOMAIN map
    THEN <<OrderBulkError("NON_EXISTING_STOCK", "order_line", TRUE,
                          order_line.variant, order_line.warehouse)>>
    ELSE IF QuantityOrdered(order_data.lines, pair) > map[pair]
    THEN <<OrderBulkError("INSUFFICIENT_STOCK", "order_line", TRUE,
                          order_line.variant, order_line.warehouse)>>
    ELSE <<>>

\* Variant: under FORCE the rows are not looked at.
StockLineErrors_ForceUnchecked(order_data, map, policy, order_line) ==
    LET pair == PairOf(order_line) IN
    IF policy = FORCE THEN <<>>
    ELSE IF pair \notin DOMAIN map
    THEN <<OrderBulkError("NON_EXISTING_STOCK", "order_line", TRUE,
                          order_line.variant, order_line.warehouse)>>
    ELSE IF QuantityOrdered(order_data.lines, pair) > map[pair]
    THEN <<OrderBulkError("INSUFFICIENT_STOCK", "order_line", TRUE,
                          order_line.variant, order_line.warehouse)>>
    ELSE <<>>

\* The stock error of one order line against the working copy, if any.
StockLineErrors(order_data, map, policy, order_line) ==
    LET pair == PairOf(order_line) IN
    IF pair \notin DOMAIN map
    THEN <<OrderBulkError("NON_EXISTING_STOCK", "order_line", TRUE,
                          order_line.variant, order_line.warehouse)>>
    ELSE IF policy # FORCE /\ QuantityOrdered(order_data.lines, pair) > map[pair]
    THEN <<OrderBulkError("INSUFFICIENT_STOCK", "order_line", TRUE,
                          order_line.variant, order_line.warehouse)>>
    ELSE <<>>

\* The errors the reconciler finds in the order, line by line: the
\* fulfilled quantity against the ordered one, then the stock row.
StockErrors(order_data, map, policy) ==
    Flatten([i \in DOMAIN order_data.lines |->
               TooManyFulfillments(order_data, i)
               \o StockLineErrors(order_data, map, policy,
                                  order_data.lines[i])])

\* The rows after the order has taken its quantities.
DecrementStocks(map, order_data) ==
    [pair \in DOMAIN map |->
        map[pair] - QuantityToDecrement(order_data.lines, pair)]

\* Variant: an order holds back only what it has shipped.
ReserveStocks_Fulfilled(map, order_data) ==
    [pair \in DOMAIN map |->
        map[pair] - QuantityToDecrement(order_data.lines, pair)]

\* The working copy after the order has been let through: what is left for
\* the orders behind it is less by what the order has ordered.
ReserveStocks(map, order_data) ==
    [pair \in DOMAIN map |->
        map[pair] - QuantityOrdered(order_data.lines, pair)]

\* Variant: the rows are written whatever the stock policy is.
UpdateStocks_UnderSkip(table, order_data, policy) ==
    IF ~order_data.order THEN table
    ELSE DecrementStocks(table, order_data)

\* Variant: the rows are written for the orders that were rejected as well.
UpdateStocks_RejectedToo(table, order_data, policy) ==
    IF policy = SKIP THEN table
    ELSE DecrementStocks(table, order_data)

\* The Stock table after the commit loop has looked at the order: the
\* quantities are taken for an order that is kept, unless the policy is SKIP.
UpdateStocks(table, order_data, policy) ==
    IF policy = SKIP \/ ~order_data.order THEN table
    ELSE DecrementStocks(table, order_data)

----------------------------------------------------------------------------
(* Access control *)

\* Variant: one of the two permissions is enough.
HasPermissions_Any(permissions) == permissions \cap RequiredPermissions # {}

HasPermissions(permissions) == RequiredPermissions \subseteq permissions

----------------------------------------------------------------------------
(* Error policy *)

\* Variant: only critical errors reject, whatever the policy.
RejectsRow_CriticalOnly(order_data, policy) == order_data.is_critical_error

\* Does the order's own error list reject it under the policy?
RejectsRow(order_data, policy) ==
    IF policy = IGNORE_FAILED THEN order_data.is_critical_error
    ELSE order_data.errors # <<>>

\* Variant: REJECT_EVERYTHING handled like REJECT_FAILED_ROWS.
Rejected_RowByRow(data, k, policy) == RejectsRow(data[k], policy)

\* Variant: under REJECT_EVERYTHING only a critical error rejects the batch.
Rejected_EverythingOnCritical(data, k, policy) ==
    IF policy = REJECT_EVERYTHING
    THEN \E i \in DOMAIN data : data[i].is_critical_error
    ELSE RejectsRow(data[k], policy)

\* Is the order at position k rejected once the policy looks at the batch?
Rejected(data, k, policy) ==
    IF policy = REJECT_EVERYTHING
    THEN \E i \in DOMAIN data : data[i].errors # <<>>
    ELSE RejectsRow(data[k], policy)

----------------------------------------------------------------------------
(* The reconciler, one order at a time *)

\* Variant: the reconciler takes the quantities from the Stock table as it
\* goes through the orders.
ReconcileOrder_InPlace(order_data, map, table, error_policy, policy) ==
    LET errors == StockErrors(order_data, map, policy) IN
    IF RejectsRow(order_data, error_policy)
    THEN [order_data |-> order_data, stocks_map |-> map, stock |-> table]
    ELSE IF errors # <<>>
    THEN [order_data |-> [order_data EXCEPT !.errors = @ \o errors,
                                            !.is_critical_error = TRUE],
          stocks_map |-> map, stock |-> table]
    ELSE [order_data |-> order_data,
          stocks_map |-> ReserveStocks(map, order_data),
          stock |-> DecrementStocks(table, order_data)]

\* The reconciler's step on one order: an order its own errors reject is
\* passed over, an order with a stock error gets the error, and any other
\* order reserves its quantities in the working copy.  The Stock table is
\* not written.
ReconcileOrder(order_data, map, table, error_policy, policy) ==
    LET errors == StockErrors(order_data, map, policy) IN
    IF RejectsRow(order_data, error_policy)
    THEN [order_data |-> order_data, stocks_map |-> map, stock |-> table]
    ELSE IF errors # <<>>
    THEN [order_data |-> [order_data EXCEPT !.errors = @ \o errors,
                                            !.is_critical_error = TRUE],
          stocks_map |-> map, stock |-> table]
    ELSE [order_data |-> order_data,
          stocks_map |-> ReserveStocks(map, order_data),
          stock |-> table]

\* The reconciler over the assembled orders, in input order: steps[k] is
\* its step on the order at position k, on the working copy the orders
\* before it have left.
handle_stocks(data, table, error_policy, policy) ==
    LET steps[k \in 0..Len(data)] ==
            IF k = 0
            THEN [order_data |-> None, stocks_map |-> table, stock |-> table]
            ELSE ReconcileOrder(data[k], steps[k - 1].stocks_map, table,
                                error_policy, policy)
    IN  [k \in DOMAIN data |-> steps[k].order_data]

\* The assembled orders of a batch after validation and reconciliation.
ValidatedBatch(batch, table, error_policy, policy) ==
    LET data == [k \in DOMAIN batch |-> create_single_order(batch[k])] IN
    IF policy = SKIP THEN data
    ELSE handle_stocks(data, table, error_policy, policy)

\* The orders of a batch that the error policy keeps.
KeptUnder(batch, table, error_policy, policy) ==
    LET data == ValidatedBatch(batch, table, error_policy, policy) IN
    {k \in DOMAIN batch : ~Rejected(data, k, error_policy)}

----------------------------------------------------------------------------
(* Storage *)

EmptyDb ==
    [Order |-> {}, OrderLine |-> {}, Address |-> {}, OrderEvent |-> {},
     Fulfillment |-> {}, FulfillmentLine |-> {}, TransactionItem |-> {}]

\* The rows of the aggregate of the order at position k.
Aggregate(k, order_data) ==
    [Order |-> {[id |-> k, origin |-> "bulk_create", user |-> order_data.user,
                 shipping_method |-> order_data.shipping_method,
                 collection_point |-> order_data.collection_point,
                 shipping_price |-> order_data.shipping_price,
                 total |-> order_data.total]},
     OrderLine |-> {[order |-> k, idx |-> i,
                     quantity |-> order_data.lines[i].quantity,
                     quantity_fulfilled |-> order_data.lines[i].quantity_fulfilled,
                     total_price |-> order_data.lines[i].total_price,
                     unit_price |-> order_data.lines[i].unit_price,
                     undiscounted_unit_price |->
                         order_data.lines[i].undiscounted_unit_price,
                     tax_class_metadata |-> order_data.lines[i].tax_class_metadata,
                     tax_class_private_metadata |->
                         order_data.lines[i].tax_class_private_metadata]
                    : i \in DOMAIN order_data.lines},
     Address |-> {[order |-> k, kind |-> a] : a \in {"billing", "shipping"}},
     OrderEvent |-> {[order |-> k, idx |-> i, type |-> "note_added"]
                     : i \in DOMAIN order_data.events},
     Fulfillment |-> {[order |-> k,
                       fulfillment_order |-> order_data.fulfillments[f].fulfillment_order]
                      : f \in DOMAIN order_data.fulfillments},
     FulfillmentLine |-> UNION {
         {[order |-> k, fulfillment |-> f, idx |-> j,
           order_line |-> order_data.fulfillments[f].lines[j].order_line,
           quantity |-> order_data.fulfillments[f].lines[j].quantity]
          : j \in DOMAIN order_data.fulfillments[f].lines}
         : f \in DOMAIN order_data.fulfillments},
     TransactionItem |-> {[order |-> k, idx |-> t]
                          : t \in 1..order_data.transactions}]

Tables == DOMAIN EmptyDb

\* Variant: the fulfillment lines are not written.
SaveAggregate_NoFulfillmentLines(database, k, order_data) ==
    [t \in Tables |->
        IF t = "FulfillmentLine" THEN database[t]
        ELSE database[t] \cup Aggregate(k, order_data)[t]]

\* Insert all rows of the aggregate in one transaction.
SaveAggregate(database, k, order_data) ==
    [t \in Tables |-> database[t] \cup Aggregate(k, order_data)[t]]

----------------------------------------------------------------------------
(* The inputs the model explores *)

StockedVariants == {1, 2}
StockedWarehouses == {1}
StockedPairs == StockedVariants \X StockedWarehouses

\* Stock tables: any subset of the pairs has a row, with 0..MaxStock units.
SmallStocks ==
    UNION {[rows -> 0..MaxStock] : rows \in SUBSET StockedPairs}

\* The stock rows the stock tests create for the three-line order.
FixtureStock(q11, q21, q22) ==
    (<<1, 1>> :> q11) @@ (<<2, 1>> :> q21) @@ (<<2, 2>> :> q22)

FixtureStocks == {FixtureStock(100, 100, 100), FixtureStock(100, 100, 1)}

InitialStocks == SmallStocks \cup FixtureStocks

\* Orders that differ from the fixture in what the policy tests vary.
PolicyOrders ==
    LET base == order_bulk_input(1, 1, 1) IN
    { base,
      [base EXCEPT !.createdAt = MINUTES_DIFF + 1],
      [base EXCEPT !.notes = <<NoteInput(MAX_NOTE_LENGTH + 1, 1, None)>>],
      [base EXCEPT !.notes = <<NoteInput(12, 1, 1)>>],
      [base EXCEPT !.lines = <<LineInput(1, 1, 1, <<"">>, <<"">>)>>],
      [base EXCEPT !.createdAt = MINUTES_DIFF + 1,
                   !.notes = <<NoteInput(MAX_NOTE_LENGTH + 1, 1, None)>>] }

StockLines ==
    {line(v, w, q) : v \in StockedVariants, w \in StockedWarehouses,
                     q \in 1..MaxQuantity}

\* One fulfillment that ships fulfilled[i] units of line i (none when 0).
FulfillmentsOf(lines, fulfilled) ==
    LET fls == Flatten([i \in DOMAIN lines |->
                          IF fulfilled[i] = 0 THEN <<>>
                          ELSE <<fulfillment_line(lines[i].variantId,
                                                  lines[i].warehouse,
                                                  fulfilled[i], i - 1)>>])
    IN  IF fls = <<>> THEN <<>> ELSE <<fls>>

\* Orders of n lines on the stocked pairs, each line shipped 0..MaxQuantity.
StockOrders(n, variants) ==
    {OrderInput(0, lines, <<note>>, FulfillmentsOf(lines, fulfilled)) :
        lines \in [1..n -> {l \in StockLines : l.variantId \in variants}],
        fulfilled \in [1..n -> 0..MaxQuantity]}

BatchesOf(n, orderSet) == [1..n -> orderSet]

StockBatches ==
    BatchesOf(1, UNION {StockOrders(n, StockedVariants) : n \in 1..MaxLines})
    \cup BatchesOf(2, StockOrders(1, StockedVariants))
    \cup UNION {BatchesOf(n, StockOrders(1, {1})) : n \in 2..MaxOrders}

PolicyBatches == UNION {BatchesOf(n, PolicyOrders) : n \in 1..MaxOrders}

\* The three-line order with the first line of its first fulfillment
\* changed, as the fulfillment tests change it.
WithFirstFulfillmentLine(variant, warehouse, quantity, orderLineIndex) ==
    [order_bulk_input_with_multiple_order_lines_and_fulfillments_with_stocks
        EXCEPT !.fulfillments[1][1] =
            fulfillment_line(variant, warehouse, quantity, orderLineIndex)]

FulfillmentOrders ==
    { WithFirstFulfillmentLine(1, 1, 5, 5),     \* no such order line
      WithFirstFulfillmentLine(1, 3, 5, 0),     \* another warehouse
      WithFirstFulfillmentLine(3, 1, 5, 0),     \* another variant
      WithFirstFulfillmentLine(3, 3, 5, 0),     \* both differ
      WithFirstFulfillmentLine(1, 1, 500, 0),   \* more than ordered
      WithFirstFulfillmentLine(1, 1, 6, 0) }    \* 6 + 5 of 10 ordered

FixtureBatches ==
    {<<order_bulk_input_with_multiple_order_lines_and_fulfillments_with_stocks>>}
    \cup BatchesOf(1, FulfillmentOrders)

\* The references the resolver tests give for the user, the variant of the
\* line and the delivery method.
UserInputs ==
    { user,
      [user EXCEPT !.id = None],
      [user EXCEPT !.email = non_existing_email],
      [user EXCEPT !.id = None, !.email = non_existing_email],
      [user EXCEPT !.id = None, !.email = customer_user.email],
      [user EXCEPT !.id = None,
                   !.externalReference = customer_user.external_reference] }

VariantInputs ==
    { [variantId |-> 1, variantSku |-> None],
      [variantId |-> None, variantSku |-> 31],
      [variantId |-> None, variantSku |-> non_existing_sku],
      [variantId |-> 1, variantSku |-> 31],
      [variantId |-> None, variantSku |-> None] }

DeliveryMethodInputs ==
    [shippingMethodId : {None, 1}, warehouseId : {None, 1},
     shippingPrice : {delivery_method.shippingPrice}]

ResolverOrders ==
    LET base == order_bulk_input(1, 1, 1) IN
    { [base EXCEPT !.user = u, !.deliveryMethod = dm,
                   !.lines[1].variantId = v.variantId,
                   !.lines[1].variantSku = v.variantSku] :
        u \in UserInputs, v \in VariantInputs, dm \in DeliveryMethodInputs }

ResolverBatches == BatchesOf(1, ResolverOrders)

\* The quantities and totals the price tests give to the line of the
\* fixture, and a total that does not divide evenly by 2.
PriceQuantities == {-5, 0, 1, 2, 3, 5}

PriceTotals ==
    {Price(120, 100), Price(20, 10), Price(60, 50), Price(100, 300),
     [gross |-> 1005, net |-> 995]}

UndiscountedTotals == {Price(120, 100), Price(20, 10), Price(100, 300)}

PriceLines ==
    {[line(1, 1, q) EXCEPT !.totalPrice = t, !.undiscountedTotalPrice = u] :
        q \in PriceQuantities, t \in PriceTotals, u \in UndiscountedTotals}

PriceOrders ==
    LET base == order_bulk_input(1, 1, 5) IN
    {[base EXCEPT !.lines = <<l>>] : l \in PriceLines}
    \cup {[base EXCEPT !.lines =
              <<line(1, 1, 5), [line(2, 1, 5) EXCEPT !.totalPrice = t]>>] :
            t \in PriceTotals}

PriceBatches == BatchesOf(1, PriceOrders)

\* Orders with several things wrong at once: the addresses as the address
\* test gives them, a line and a note.
AddressInputs(wrong) == {graphql_address_data, {wrong}}

AddressOrders ==
    LET base == order_bulk_input(1, 1, 1) IN
    {[base EXCEPT !.billingAddress = b, !.shippingAddress = sh,
                  !.lines = <<l>>, !.notes = <<n>>] :
        b \in AddressInputs("firstName"), sh \in AddressInputs("postalCode"),
        l \in {line(1, 1, 1), line(1, 1, 0),
               LineInput(1, 1, 1, <<"">>, <<"">>)},
        n \in {note, NoteInput(MAX_NOTE_LENGTH + 1, 1, None)}}

AddressBatches == BatchesOf(1, AddressOrders)

\* The batches submitted against a given stock table.
BatchesFor(table) ==
    IF table \in FixtureStocks THEN FixtureBatches
    ELSE StockBatches
         \cup (IF DOMAIN table = {<<1, 1>>}
               THEN PolicyBatches \cup ResolverBatches \cup PriceBatches
                    \cup AddressBatches
               ELSE {})
         \cup (IF DOMAIN table = {} THEN FixtureBatches ELSE {})

----------------------------------------------------------------------------
(* Row locks *)

NoRow == <<0, 0>>

\* No commit is open; the outside operation has not started.
IdleTx == [pc |-> "idle", pending |-> {}, row |-> NoRow, read |-> 0]

IdleOp == [pc |-> "idle", row |-> NoRow, read |-> 0, change |-> 0,
           began |-> ""]

\* What the outside operation adds to the row it works on.
OtherChanges == {-1, 1}

\* Variant: the row is read for update without its lock being looked at.
CanLock_Unchecked(locks, pair, who) == TRUE

\* A row can be read for update by who holds its lock or when nobody does.
CanLock(locks, pair, who) == locks[pair] \in {"", who}

\* The rows the commit of the order has to write.
RowsToDecrement(table, order_data, policy) ==
    IF policy = SKIP \/ ~order_data.order THEN {}
    ELSE {pair \in DOMAIN table :
            QuantityToDecrement(order_data.lines, pair) # 0}

----------------------------------------------------------------------------
(* The mutation, step by step *)

Init ==
    /\ batchState = "IDLE"
    /\ stock \in InitialStocks
    /\ initial_stock = stock
    /\ orders = <<>>
    /\ errorPolicy = REJECT_EVERYTHING
    /\ stockUpdatePolicy = SKIP
    /\ orders_data = <<>>
    /\ reconciled = 0
    /\ stocks_map = stock
    /\ saved = 0
    /\ db = EmptyDb
    /\ results = <<>>
    /\ count = 0
    /\ user_permissions \in SUBSET RequiredPermissions
    /\ directory = [User |-> {customer_user},
                    ProductVariant |-> product_variant_list]
    /\ row_lock = [pair \in DOMAIN stock |-> ""]
    /\ batch_tx = IdleTx
    /\ other_op = IdleOp

\* The call arrives with the permissions: validation starts.
PerformMutation ==
    /\ batchState = "IDLE"
    /\ HasPermissions(user_permissions)
    /\ \E batch \in BatchesFor(stock), ep \in ErrorPolicyEnum,
          sp \in StockUpdatePolicyEnum :
            /\ orders' = batch
            /\ errorPolicy' = ep
            /\ stockUpdatePolicy' = sp
    /\ batchState' = "VALIDATING"
    /\ UNCHANGED <<orders_data, reconciled, stocks_map, saved, stock,
                   initial_stock, db, results, count, user_permissions,
                   directory>>
    /\ UNCHANGED locking_vars

\* The call arrives without the permissions: nothing is processed.
PermissionDenied ==
    /\ batchState = "IDLE"
    /\ ~HasPermissions(user_permissions)
    /\ batchState' = "DENIED"
    /\ UNCHANGED <<orders, errorPolicy, stockUpdatePolicy, orders_data,
                   reconciled, stocks_map, saved, stock, initial_stock, db,
                   results, count, user_permissions, directory>>
    /\ UNCHANGED locking_vars

\* Validate and assemble the next order of the batch.
CreateSingleOrder ==
    /\ batchState = "VALIDATING"
    /\ Len(orders_data) < Len(orders)
    /\ orders_data' =
         Append(orders_data, create_single_order(orders[Len(orders_data) + 1]))
    /\ UNCHANGED <<batchState, orders, errorPolicy, stockUpdatePolicy,
                   reconciled, stocks_map, saved, stock, initial_stock, db,
                   results, count, user_permissions, directory>>
    /\ UNCHANGED locking_vars

\* Reconcile the next order against the working copy of the stock rows.
HandleStocks ==
    /\ batchState = "VALIDATING"
    /\ Len(orders_data) = Len(orders)
    /\ stockUpdatePolicy # SKIP
    /\ reconciled < Len(orders)
    /\ LET k == reconciled + 1
           step == ReconcileOrder(orders_data[k], stocks_map, stock,
                                  errorPolicy, stockUpdatePolicy)
       IN  /\ reconciled' = k
           /\ orders_data' = [orders_data EXCEPT ![k] = step.order_data]
           /\ stocks_map' = step.stocks_map
           /\ stock' = step.stock
    /\ UNCHANGED <<batchState, orders, errorPolicy, stockUpdatePolicy, saved,
                   initial_stock, db, results, count, user_permissions,
                   directory>>
    /\ UNCHANGED locking_vars

\* Variant: a batch of which nothing is kept goes back to validation.
BatchStateAfterPolicy_Revalidates(kept) ==
    IF \E k \in DOMAIN kept : kept[k] THEN "COMMITTING" ELSE "VALIDATING"

\* Where the batch goes once the policy has decided: on to the commit loop
\* when an order is kept, and otherwise it is rejected.
BatchStateAfterPolicy(kept) ==
    IF \E k \in DOMAIN kept : kept[k] THEN "COMMITTING" ELSE "REJECTED"

\* Decide, for the whole batch, which orders are kept.
HandleErrorPolicy ==
    /\ batchState = "VALIDATING"
    /\ Len(orders_data) = Len(orders)
    /\ stockUpdatePolicy = SKIP \/ reconciled = Len(orders)
    /\ LET kept == [k \in DOMAIN orders_data |->
                      ~Rejected(orders_data, k, errorPolicy)]
       IN  /\ orders_data' = [k \in DOMAIN orders_data |->
                                [orders_data[k] EXCEPT !.order = kept[k]]]
           /\ batchState' = BatchStateAfterPolicy(kept)
    /\ UNCHANGED <<orders, errorPolicy, stockUpdatePolicy, reconciled,
                   stocks_map, saved, stock, initial_stock, db, results, count,
                   user_permissions, directory>>
    /\ UNCHANGED locking_vars

\* Commit the next order: its whole aggregate and its stock decrement.
SaveOrder ==
    /\ batchState = "COMMITTING"
    /\ saved < Len(orders)
    /\ LET k == saved + 1
           order_data == orders_data[k]
       IN  /\ saved' = k
           /\ db' = IF order_data.order THEN SaveAggregate(db, k, order_data)
                    ELSE db
           /\ stock' = UpdateStocks(stock, order_data, stockUpdatePolicy)
    /\ UNCHANGED <<batchState, orders, errorPolicy, stockUpdatePolicy,
                   orders_data, reconciled, stocks_map, initial_stock,
                   results, count, user_permissions, directory>>
    /\ UNCHANGED locking_vars

\* Variant: the results come out in reverse order.
Results_Reversed(data) ==
    [k \in DOMAIN data |->
        [order |-> IF data[Len(data) + 1 - k].order
                   THEN Len(data) + 1 - k ELSE None,
         errors |-> data[Len(data) + 1 - k].errors]]

\* Variant: the errors are returned for the orders that were kept only.
Results_ErrorsOfKept(data) ==
    [k \in DOMAIN data |->
        [order |-> IF data[k].order THEN k ELSE None,
         errors |-> IF data[k].order THEN data[k].errors ELSE <<>>]]

\* One result per input order, and the number of orders created.
Results(data) ==
    [k \in DOMAIN data |->
        [order |-> IF data[k].order THEN k ELSE None,
         errors |-> data[k].errors]]

\* Variant: the orders without an error are counted.
Count_WithoutErrors(data) ==
    Cardinality({k \in DOMAIN data : data[k].errors = <<>>})

\* The returned count: the orders that were kept.
Count(data) == Cardinality({k \in DOMAIN data : data[k].order})

Finish ==
    /\ \/ batchState = "COMMITTING" /\ saved = Len(orders)
       \/ batchState = "REJECTED"
    /\ results' = Results(orders_data)
    /\ count' = Count(orders_data)
    /\ batchState' = "DONE"
    /\ UNCHANGED <<orders, errorPolicy, stockUpdatePolicy, orders_data,
                   reconciled, stocks_map, saved, stock, initial_stock, db,
                   user_permissions, directory>>
    /\ UNCHANGED locking_vars

Next ==
    \/ PerformMutation
    \/ PermissionDenied
    \/ CreateSingleOrder
    \/ HandleStocks
    \/ HandleErrorPolicy
    \/ SaveOrder
    \/ Finish

Spec == Init /\ [][Next]_vars

----------------------------------------------------------------------------
(* The commit of an order row by row, next to an outside stock operation *)

\* Open the transaction of the next order.
BeginSaveOrder ==
    /\ batchState = "COMMITTING"
    /\ saved < Len(orders)
    /\ batch_tx.pc = "idle"
    /\ batch_tx' = [IdleTx EXCEPT
                      !.pc = "open",
                      !.pending = RowsToDecrement(stock, orders_data[saved + 1],
                                                  stockUpdatePolicy)]
    /\ UNCHANGED <<batchState, orders, errorPolicy, stockUpdatePolicy,
                   orders_data, reconciled, stocks_map, saved, stock,
                   initial_stock, db, results, count, user_permissions,
                   directory, row_lock, other_op>>

\* Take the lock of one of the rows still to write and read the row.
SelectForUpdate ==
    /\ batch_tx.pc = "open"
    /\ \E pair \in batch_tx.pending :
          /\ CanLock(row_lock, pair, "batch")
          /\ row_lock' = [row_lock EXCEPT ![pair] = "batch"]
          /\ batch_tx' = [batch_tx EXCEPT !.pc = "read", !.row = pair,
                                          !.read = stock[pair]]
    /\ UNCHANGED <<batchState, orders, errorPolicy, stockUpdatePolicy,
                   orders_data, reconciled, stocks_map, saved, stock,
                   initial_stock, db, results, count, user_permissions,
                   directory, other_op>>

\* Write the row: what was read, less the quantity of the order.
WriteStockRow ==
    /\ batch_tx.pc = "read"
    /\ stock' = [stock EXCEPT ![batch_tx.row] =
                   batch_tx.read
                   - QuantityToDecrement(orders_data[saved + 1].lines,
                                         batch_tx.row)]
    /\ batch_tx' = [batch_tx EXCEPT !.pc = "open",
                                    !.pending = @ \ {batch_tx.row}]
    /\ UNCHANGED <<batchState, orders, errorPolicy, stockUpdatePolicy,
                   orders_data, reconciled, stocks_map, saved, initial_stock,
                   db, results, count, user_permissions, directory, row_lock,
                   other_op>>

\* Commit: the aggregate of the order is written and the locks are let go.
CommitOrder ==
    /\ batch_tx.pc = "open"
    /\ batch_tx.pending = {}
    /\ LET k == saved + 1
           order_data == orders_data[k]
       IN  /\ saved' = k
           /\ db' = IF order_data.order THEN SaveAggregate(db, k, order_data)
                    ELSE db
    /\ row_lock' = [pair \in DOMAIN row_lock |->
                      IF row_lock[pair] = "batch" THEN "" ELSE row_lock[pair]]
    /\ batch_tx' = IdleTx
    /\ UNCHANGED <<batchState, orders, errorPolicy, stockUpdatePolicy,
                   orders_data, reconciled, stocks_map, stock, initial_stock,
                   results, count, user_permissions, directory, other_op>>

\* The outside operation, started while the batch is being processed, takes
\* the lock of a row and reads the row.
OtherSelectForUpdate ==
    /\ other_op.pc = "idle"
    /\ batchState \in {"VALIDATING", "COMMITTING", "REJECTED"}
    /\ \E pair \in DOMAIN stock, change \in OtherChanges :
          /\ CanLock(row_lock, pair, "other")
          /\ row_lock' = [row_lock EXCEPT ![pair] = "other"]
          /\ other_op' = [pc |-> "read", row |-> pair, read |-> stock[pair],
                          change |-> change, began |-> batchState]
    /\ UNCHANGED <<batchState, orders, errorPolicy, stockUpdatePolicy,
                   orders_data, reconciled, stocks_map, saved, stock,
                   initial_stock, db, results, count, user_permissions,
                   directory, batch_tx>>

\* The outside operation writes the row and lets its lock go.
OtherWrite ==
    /\ other_op.pc = "read"
    /\ stock' = [stock EXCEPT ![other_op.row] = other_op.read + other_op.change]
    /\ row_lock' = [row_lock EXCEPT ![other_op.row] =
                      IF @ = "other" THEN "" ELSE @]
    /\ other_op' = [other_op EXCEPT !.pc = "done"]
    /\ UNCHANGED <<batchState, orders, errorPolicy, stockUpdatePolicy,
                   orders_data, reconciled, stocks_map, saved, initial_stock,
                   db, results, count, user_permissions, directory, batch_tx>>

ConcurrentInit ==
    /\ Init
    /\ stock \in FixtureStocks

ConcurrentNext ==
    \/ PerformMutation
    \/ PermissionDenied
    \/ CreateSingleOrder
    \/ HandleStocks
    \/ HandleErrorPolicy
    \/ BeginSaveOrder
    \/ SelectForUpdate
    \/ WriteStockRow
    \/ CommitOrder
    \/ Finish
    \/ OtherSelectForUpdate
    \/ OtherWrite

ConcurrentSpec == ConcurrentInit /\ [][ConcurrentNext]_vars

\* The call is one request that runs to its end: a step that can be taken
\* is taken.  The rows are the ones of the fixtures and one small table.
FairInit ==
    /\ Init
    /\ stock \in FixtureStocks \cup {<<1, 1>> :> 1}

FairSpec == FairInit /\ [][Next]_vars /\ WF_vars(Next)

TypeOK ==
    /\ batchState \in {"IDLE", "VALIDATING", "COMMITTING", "REJECTED", "DONE",
                       "DENIED"}
    /\ errorPolicy \in ErrorPolicyEnum
    /\ stockUpdatePolicy \in StockUpdatePolicyEnum
    /\ Len(orders_data) <= Len(orders)
    /\ reconciled \in 0..Len(orders)
    /\ saved \in 0..Len(orders)
    /\ count \in 0..Len(orders)
    /\ user_permissions \subseteq RequiredPermissions
    /\ DOMAIN directory = {"User", "ProductVariant"}

----------------------------------------------------------------------------
(* Vocabulary of the properties, stated on the inputs and on the tables *)

\* The orders of the batch that have a row in the Order table.
Persisted == {row.id : row \in db.Order}

\* The rows of table t that belong to the order at position k.
RowsOf(t, k) ==
    IF t = "Order" THEN {row \in db[t] : row.id = k}
    ELSE {row \in db[t] : row.order = k}

NoteIsSoftFailure(n) ==
    n.message > MAX_NOTE_LENGTH \/ (n.userId # None /\ n.appId # None)

LineHasEmptyMetadataKey(l) ==
    \/ \E i \in DOMAIN l.taxClassMetadata : l.taxClassMetadata[i] = ""
    \/ \E i \in DOMAIN l.taxClassPrivateMetadata :
          l.taxClassPrivateMetadata[i] = ""

HasSoftCondition(order_input) ==
    \/ \E i \in DOMAIN order_input.notes : NoteIsSoftFailure(order_input.notes[i])
    \/ \E i \in DOMAIN order_input.lines :
          LineHasEmptyMetadataKey(order_input.lines[i])

Done == batchState = "DONE"

----------------------------------------------------------------------------
(* Error policy *)

\* C1: under REJECT_EVERYTHING, as soon as one order of the batch carries an
\* error, no order of the batch is ever persisted, every result has a null
\* order and the returned count is 0.
C1_RejectEverything ==
    (errorPolicy = REJECT_EVERYTHING
     /\ \E k \in DOMAIN orders_data : orders_data[k].errors # <<>>)
    => /\ Persisted = {}
       /\ Done => /\ count = 0
                  /\ \A k \in DOMAIN results : results[k].order = None

C1_Witness ==
    /\ Done
    /\ errorPolicy = REJECT_EVERYTHING
    /\ \E j, k \in DOMAIN orders_data :
          /\ orders_data[j].errors = <<>>
          /\ orders_data[k].errors # <<>>
    /\ count = 0
    /\ Persisted = {}

C3_IgnoreFailedKeepsSoftFailures ==
    (Done /\ errorPolicy = IGNORE_FAILED) =>
        \A k \in DOMAIN orders :
            (HasSoftCondition(orders[k]) /\ ~orders_data[k].is_critical_error) =>
                /\ k \in Persisted
                /\ results[k].order # None
                /\ results[k].errors # <<>>
                /\ \A i \in DOMAIN results[k].errors :
                      results[k].errors[i].code \in
                          {"NOTE_LENGTH", "TOO_MANY_IDENTIFIERS",
                           "METADATA_KEY_REQUIRED"}
                /\ Cardinality(RowsOf("OrderEvent", k)) =
                      Cardinality({i \in DOMAIN orders[k].notes :
                                      ~NoteIsSoftFailure(orders[k].notes[i])})
                /\ \A row \in RowsOf("OrderLine", k) :
                      LineHasEmptyMetadataKey(orders[k].lines[row.idx]) =>
                          /\ row.tax_class_metadata = <<>>
                          /\ row.tax_class_private_metadata = <<>>

C3_Witness ==
    /\ Done
    /\ errorPolicy = IGNORE_FAILED
    /\ \E k \in DOMAIN orders :
          /\ NoteIsSoftFailure(orders[k].notes[1])
          /\ k \in Persisted
          /\ RowsOf("OrderEvent", k) = {}
          /\ results[k].errors # <<>>
    /\ \E k \in DOMAIN orders :
          /\ LineHasEmptyMetadataKey(orders[k].lines[1])
          /\ k \in Persisted
          /\ results[k].errors # <<>>

\* C4: under REJECT_EVERYTHING and REJECT_FAILED_ROWS an order with an
\* over-length note, a note with two authors or an empty tax-class metadata
\* key is never persisted, and its result has a null order.
C4_SoftConditionsAreHard ==
    errorPolicy # IGNORE_FAILED =>
        \A k \in DOMAIN orders :
            HasSoftCondition(orders[k]) =>
                /\ k \notin Persisted
                /\ Done => results[k].order = None

C4_Witness ==
    /\ Done
    /\ errorPolicy = REJECT_FAILED_ROWS
    /\ \E j, k \in DOMAIN orders :
          /\ HasSoftCondition(orders[k])
          /\ ~orders_data[k].is_critical_error
          /\ k \notin Persisted
          /\ j \in Persisted

\* C5: the results have one entry per input order, the entry at position k
\* is the one of the order at position k (it carries that order's validation
\* errors and, when not null, that order), and the entry's order is null
\* exactly when the order has no row in the Order table.
C5_OneResultPerOrder ==
    Done =>
        /\ Len(results) = Len(orders)
        /\ \A k \in DOMAIN orders :
              LET own == create_single_order(orders[k]).errors IN
              /\ results[k].order \in {None, k}
              /\ Len(results[k].errors) >= Len(own)
              /\ SubSeq(results[k].errors, 1, Len(own)) = own
              /\ results[k].order = None <=> k \notin Persisted

C5_Witness ==
    /\ Done
    /\ Len(results) = 2
    /\ results[1].order = None
    /\ results[1].errors # <<>>
    /\ results[2].order = 2
    /\ results[2].errors = <<>>
    /\ Persisted = {2}

\* C6: in every state each order is either persisted whole (its order row
\* and every line, address, event, fulfillment, fulfillment line and
\* transaction of its aggregate) or has no row in any table; rows are never
\* removed, so a rejected order never takes an accepted sibling with it.
C6_WholeOrNothing ==
    \A k \in DOMAIN orders_data :
        \/ \A t \in Tables : RowsOf(t, k) = {}
        \/ \A t \in Tables :
              /\ RowsOf(t, k) = Aggregate(k, orders_data[k])[t]
              /\ t \in {"Order", "OrderLine", "Address", "TransactionItem"}
                    => RowsOf(t, k) # {}

C6_NeverRemoved == [][\A t \in Tables : db[t] \subseteq db'[t]]_vars

\* C6: commit is atomic per order: always whole or nothing, and no row of
\* an accepted order is ever removed by what happens to a sibling.
C6_AtomicCommit == []C6_WholeOrNothing /\ C6_NeverRemoved

C6_Witness ==
    /\ batchState = "COMMITTING"
    /\ errorPolicy = REJECT_FAILED_ROWS
    /\ saved = 2
    /\ Persisted = {1}
    /\ orders_data[2].errors # <<>>
    /\ \A t \in Tables : RowsOf(t, 1) # {}

----------------------------------------------------------------------------
(* Stock policy *)

InputPair(x) == <<x.variantId, x.warehouse>>

\* Sum of the quantities of the input records (order lines or fulfillment
\* lines) that name the pair.
RECURSIVE InputQuantityOn(_, _)
InputQuantityOn(records, pair) ==
    IF records = <<>> THEN 0
    ELSE (IF InputPair(Head(records)) = pair THEN Head(records).quantity ELSE 0)
         + InputQuantityOn(Tail(records), pair)

OrderedOn(order_input, pair) == InputQuantityOn(order_input.lines, pair)

ShippedOn(order_input, pair) ==
    InputQuantityOn(Flatten(order_input.fulfillments), pair)

PairsOfInput(order_input) ==
    {InputPair(order_input.lines[i]) : i \in DOMAIN order_input.lines}

\* Ordered and shipped quantity on the pair, over the orders 1..n in K.
RECURSIVE TotalOrdered(_, _, _)
TotalOrdered(n, K, pair) ==
    IF n = 0 THEN 0
    ELSE (IF n \in K THEN OrderedOn(orders[n], pair) ELSE 0)
         + TotalOrdered(n - 1, K, pair)

RECURSIVE TotalShipped(_, _, _)
TotalShipped(n, K, pair) ==
    IF n = 0 THEN 0
    ELSE (IF n \in K THEN ShippedOn(orders[n], pair) ELSE 0)
         + TotalShipped(n - 1, K, pair)

StockCodes == {"INSUFFICIENT_STOCK", "NON_EXISTING_STOCK"}

\* The fulfillment lines of the order, over all its fulfillments.
FulfillmentLinesOf(order_input) == Flatten(order_input.fulfillments)

\* Sum of the quantities of the fulfillment lines whose orderLineIndex is
\* the position idx (1-based) of the order's lines.
RECURSIVE QuantityReferencing(_, _)
QuantityReferencing(fls, idx) ==
    IF fls = <<>> THEN 0
    ELSE (IF Head(fls).orderLineIndex + 1 = idx THEN Head(fls).quantity ELSE 0)
         + QuantityReferencing(Tail(fls), idx)

\* Some line of the order has more fulfilled than ordered.
OverFulfilled(order_input) ==
    \E idx \in DOMAIN order_input.lines :
        QuantityReferencing(FulfillmentLinesOf(order_input), idx)
            > order_input.lines[idx].quantity

\* Every pair the batch orders on has a row that covers the batch's total.
BatchFitsStock ==
    \A k \in DOMAIN orders : \A pair \in PairsOfInput(orders[k]) :
        /\ pair \in DOMAIN initial_stock
        /\ TotalOrdered(Len(orders), DOMAIN orders, pair) <= initial_stock[pair]

\* C7 as stated: under UPDATE, when the total ordered quantity O of the
\* batch on a pair is covered by the row's quantity Q and the orders commit,
\* the row ends at Q - O.
C7_DecrementByOrdered ==
    (Done /\ stockUpdatePolicy = UPDATE /\ BatchFitsStock
     /\ Persisted = DOMAIN orders) =>
        \A pair \in DOMAIN stock :
            stock[pair] = initial_stock[pair]
                          - TotalOrdered(Len(orders), DOMAIN orders, pair)

\* C7 amended: under UPDATE, when the total ordered quantity O of the batch
\* on every pair is covered by the row's quantity Q, no order fails for
\* stock, the orders without another error (none of their own, no line with
\* more fulfilled than ordered) commit, and each row ends at Q - F, F the
\* sum of the fulfillment-line quantities of the committed orders on the
\* pair.
C7_DecrementByFulfilled ==
    (Done /\ stockUpdatePolicy = UPDATE /\ BatchFitsStock) =>
        /\ \A k \in DOMAIN orders :
              Codes(results[k].errors) \cap StockCodes = {}
        /\ (\A k \in DOMAIN orders :
                /\ create_single_order(orders[k]).errors = <<>>
                /\ ~OverFulfilled(orders[k]))
              => Persisted = DOMAIN orders
        /\ \A pair \in DOMAIN stock :
              stock[pair] = initial_stock[pair]
                            - TotalShipped(Len(orders), Persisted, pair)

C7_Witness ==
    /\ Done
    /\ stockUpdatePolicy = UPDATE
    /\ BatchFitsStock
    /\ orders = <<order_bulk_input_with_multiple_order_lines_and_fulfillments_with_stocks>>
    /\ initial_stock = FixtureStock(100, 100, 100)
    /\ count = 1
    /\ stock = FixtureStock(90, 67, 83)

\* C8: under UPDATE and FORCE each row ends at its initial quantity minus
\* the quantities of the fulfillment lines of the committed orders on its
\* pair; for the three-line order of the tests, rows of 100 end at 90, 67
\* and 83, and a row of 1 ends at -16 under FORCE.
C8_DecrementIsFulfilledQuantity ==
    (Done /\ stockUpdatePolicy \in {UPDATE, FORCE}) =>
        /\ DOMAIN stock = DOMAIN initial_stock
        /\ \A pair \in DOMAIN stock :
              stock[pair] = initial_stock[pair]
                            - TotalShipped(Len(orders), Persisted, pair)
        /\ (orders = <<order_bulk_input_with_multiple_order_lines_and_fulfillments_with_stocks>>
            /\ initial_stock = FixtureStock(100, 100, 100))
              => stock = FixtureStock(90, 67, 83)
        /\ (orders = <<order_bulk_input_with_multiple_order_lines_and_fulfillments_with_stocks>>
            /\ initial_stock = FixtureStock(100, 100, 1)
            /\ stockUpdatePolicy = FORCE)
              => stock = FixtureStock(90, 67, -16)

C8_Witness ==
    /\ Done
    /\ stockUpdatePolicy = FORCE
    /\ orders = <<order_bulk_input_with_multiple_order_lines_and_fulfillments_with_stocks>>
    /\ initial_stock = FixtureStock(100, 100, 1)
    /\ Persisted = {1}
    /\ stock = FixtureStock(90, 67, -16)

\* The orders the reconciler has let through, and what they leave on a pair
\* for the order at position k.
LetThrough == {j \in DOMAIN orders_data : ~RejectsRow(orders_data[j], errorPolicy)}

AvailableFor(k, pair) ==
    initial_stock[pair] - TotalOrdered(k - 1, LetThrough, pair)

\* C9: under UPDATE an order that passes validation, has all its rows and
\* orders more on some pair than is available is rejected with an
\* INSUFFICIENT_STOCK error on order_line that names such a pair, and it
\* takes nothing from any row: the rows hold what the committed siblings
\* left, and the initial quantities when nothing was committed.
C9_InsufficientStockRejects ==
    (Done /\ stockUpdatePolicy = UPDATE) =>
        \A k \in DOMAIN orders :
            (/\ ~RejectsRow(create_single_order(orders[k]), errorPolicy)
             /\ PairsOfInput(orders[k]) \subseteq DOMAIN initial_stock
             /\ \E pair \in PairsOfInput(orders[k]) :
                   OrderedOn(orders[k], pair) > AvailableFor(k, pair))
            => /\ results[k].order = None
               /\ k \notin Persisted
               /\ \E i \in DOMAIN results[k].errors :
                     LET e == results[k].errors[i] IN
                     /\ e.code = "INSUFFICIENT_STOCK"
                     /\ e.field = "order_line"
                     /\ <<e.variant, e.warehouse>> \in PairsOfInput(orders[k])
                     /\ OrderedOn(orders[k], <<e.variant, e.warehouse>>)
                           > AvailableFor(k, <<e.variant, e.warehouse>>)
               /\ \A pair \in DOMAIN stock :
                     stock[pair] = initial_stock[pair]
                                   - TotalShipped(Len(orders), Persisted \ {k}, pair)
               /\ Persisted = {} => stock = initial_stock

C9_Witness ==
    /\ Done
    /\ stockUpdatePolicy = UPDATE
    /\ orders = <<order_bulk_input_with_multiple_order_lines_and_fulfillments_with_stocks>>
    /\ initial_stock = FixtureStock(100, 100, 1)
    /\ results[1].order = None
    /\ results[1].errors[1].code = "INSUFFICIENT_STOCK"
    /\ results[1].errors[1].variant = 2
    /\ results[1].errors[1].warehouse = 2
    /\ stock = FixtureStock(100, 100, 1)

\* C10: under FORCE no order ever gets an INSUFFICIENT_STOCK error, and an
\* order that passes validation, fulfills no more than it orders and has all
\* its rows is persisted (unless REJECT_EVERYTHING rejects the batch for
\* another order's error), whatever the quantities of the rows; the rows may
\* end below zero.
C10_ForceNeverInsufficient ==
    stockUpdatePolicy = FORCE =>
        /\ \A k \in DOMAIN orders_data :
              "INSUFFICIENT_STOCK" \notin Codes(orders_data[k].errors)
        /\ Done =>
              \A k \in DOMAIN orders :
                  (/\ ~RejectsRow(create_single_order(orders[k]), errorPolicy)
                   /\ ~OverFulfilled(orders[k])
                   /\ PairsOfInput(orders[k]) \subseteq DOMAIN initial_stock
                   /\ errorPolicy = REJECT_EVERYTHING =>
                         \A j \in DOMAIN orders : results[j].errors = <<>>)
                  => /\ k \in Persisted
                     /\ results[k].order = k

C10_Witness ==
    /\ Done
    /\ stockUpdatePolicy = FORCE
    /\ \E k \in DOMAIN orders : \E pair \in PairsOfInput(orders[k]) :
          /\ k \in Persisted
          /\ OrderedOn(orders[k], pair) > initial_stock[pair]
          /\ initial_stock[pair] >= 0
          /\ stock[pair] < 0

\* The batch of the fulfillment and stock tests: the three-line order alone.
FixtureOrder ==
    order_bulk_input_with_multiple_order_lines_and_fulfillments_with_stocks

\* C11: under SKIP no stock row is ever changed and no order gets a stock
\* error (INSUFFICIENT_STOCK, NON_EXISTING_STOCK), whatever the rows hold and
\* whether or not they exist: the errors of an order are the ones of its own
\* validation.
C11_SkipLeavesStockAlone ==
    stockUpdatePolicy = SKIP =>
        /\ stock = initial_stock
        /\ \A k \in DOMAIN orders_data :
              Codes(orders_data[k].errors) \cap StockCodes = {}
        /\ Done =>
              \A k \in DOMAIN orders :
                  /\ Codes(results[k].errors) \cap StockCodes = {}
                  /\ results[k].errors = create_single_order(orders[k]).errors

C11_Witness ==
    /\ Done
    /\ stockUpdatePolicy = SKIP
    /\ \E k \in DOMAIN orders : \E pair \in PairsOfInput(orders[k]) :
          /\ k \in Persisted
          /\ ShippedOn(orders[k], pair) > 0
          /\ pair \in DOMAIN initial_stock
          /\ OrderedOn(orders[k], pair) > initial_stock[pair]
          /\ stock = initial_stock
          /\ results[k].errors = <<>>

\* C12: under UPDATE and under FORCE an order that passes its own validation
\* and has a line on a (variant, warehouse) pair without a stock row is not
\* persisted, and its result carries a NON_EXISTING_STOCK error on
\* order_line that names that variant and warehouse.
C12_NonExistingStock ==
    (Done /\ stockUpdatePolicy \in {UPDATE, FORCE}) =>
        \A k \in DOMAIN orders :
            ~RejectsRow(create_single_order(orders[k]), errorPolicy) =>
                \A i \in DOMAIN orders_data[k].lines :
                    LET pair == PairOf(orders_data[k].lines[i]) IN
                    pair \notin DOMAIN initial_stock =>
                        /\ k \notin Persisted
                        /\ results[k].order = None
                        /\ \E j \in DOMAIN results[k].errors :
                              /\ results[k].errors[j].code = "NON_EXISTING_STOCK"
                              /\ results[k].errors[j].field = "order_line"
                              /\ results[k].errors[j].variant = pair[1]
                              /\ results[k].errors[j].warehouse = pair[2]

C12_Witness ==
    /\ Done
    /\ stockUpdatePolicy = FORCE
    /\ orders = <<FixtureOrder>>
    /\ DOMAIN initial_stock = {}
    /\ count = 0
    /\ results[1].order = None
    /\ results[1].errors[1].code = "NON_EXISTING_STOCK"
    /\ results[1].errors[1].field = "order_line"
    /\ results[1].errors[1].variant = 1
    /\ results[1].errors[1].warehouse = 1

\* The orders the results report as created.
Created == {k \in DOMAIN results : results[k].order # None}

C13_RejectedTakeNothing ==
    Done =>
        /\ DOMAIN stock = DOMAIN initial_stock
        /\ Created = {} => stock = initial_stock
        /\ stockUpdatePolicy # SKIP =>
              \A pair \in DOMAIN stock :
                  stock[pair] = initial_stock[pair]
                                - TotalShipped(Len(orders), Created, pair)

C13_DecrementOnlyOnCommit ==
    [][\A pair \in DOMAIN stock :
          stock'[pair] # stock[pair] =>
              \E k \in DOMAIN orders :
                  /\ k \notin Persisted
                  /\ {row.id : row \in db'.Order} = Persisted \cup {k}
                  /\ ~Rejected(orders_data, k, errorPolicy)
                  /\ stock'[pair] = stock[pair] - ShippedOn(orders[k], pair)]_vars

\* C13: a stock row changes only in the step that commits an order the
\* error policy has kept, by that order's quantity, and when the call is
\* over the rows hold the initial quantities minus what the created orders
\* took: an order rejected for its own errors or with the whole batch under
\* REJECT_EVERYTHING takes nothing.
C13_OnlyCommittedOrdersTakeStock ==
    []C13_RejectedTakeNothing /\ C13_DecrementOnlyOnCommit

C13_Witness ==
    /\ Done
    /\ errorPolicy = REJECT_EVERYTHING
    /\ stockUpdatePolicy = UPDATE
    /\ Len(orders) = 2
    /\ create_single_order(orders[1]).errors = <<>>
    /\ ShippedOn(orders[1], <<1, 1>>) > 0
    /\ <<1, 1>> \in DOMAIN initial_stock
    /\ OrderedOn(orders[1], <<1, 1>>) <= initial_stock[<<1, 1>>]
    /\ results[1].errors = <<>>
    /\ results[1].order = None
    /\ results[2].errors # <<>>
    /\ ShippedOn(orders[2], <<1, 1>>) > 0
    /\ stock = initial_stock

----------------------------------------------------------------------------
(* Fulfillments *)

RECURSIVE SumOfQuantities(_)
SumOfQuantities(rows) ==
    IF rows = {} THEN 0
    ELSE LET row == CHOOSE r \in rows : TRUE IN
         row.quantity + SumOfQuantities(rows \ {row})

\* Every line of the order names its variant by an id of the directory.
LinesGivenById(order_input) ==
    \A i \in DOMAIN order_input.lines :
        /\ order_input.lines[i].variantSku = None
        /\ \E v \in directory.ProductVariant :
              v.id = order_input.lines[i].variantId

\* C14 as stated: under every stock policy the fulfillment lines of a
\* persisted order line never sum to more than the line's quantity, and an
\* order in which they do is not committed and gets INVALID_QUANTITY.
C14_FulfilledWithinOrdered ==
    /\ \A row \in db.OrderLine :
          SumOfQuantities({fl \in db.FulfillmentLine :
                              fl.order = row.order /\ fl.order_line = row.idx})
              <= row.quantity
    /\ \A k \in DOMAIN orders :
          OverFulfilled(orders[k]) =>
              /\ k \notin Persisted
              /\ Done => /\ results[k].order = None
                         /\ "INVALID_QUANTITY" \in Codes(results[k].errors)

\* C14 amended: the sum is checked by the stock reconciler, which SKIP
\* leaves out.  Under UPDATE and FORCE the fulfillment lines of a persisted
\* order line never sum to more than the line's quantity, and an order in
\* which the fulfillment lines that reference a line sum to more than its
\* quantity is not committed and, when it passes its own validation, gets an
\* INVALID_QUANTITY error on order_line that names the line's variant and
\* warehouse.  Under SKIP no such error is produced and the order commits.
C14_ReconcilerChecksFulfilled ==
    /\ stockUpdatePolicy # SKIP =>
          /\ \A row \in db.OrderLine :
                /\ row.quantity_fulfilled <= row.quantity
                /\ SumOfQuantities({fl \in db.FulfillmentLine :
                                      fl.order = row.order
                                      /\ fl.order_line = row.idx})
                      <= row.quantity
          /\ \A k \in DOMAIN orders : \A idx \in DOMAIN orders[k].lines :
                QuantityReferencing(FulfillmentLinesOf(orders[k]), idx)
                    > orders[k].lines[idx].quantity
                => /\ k \notin Persisted
                   /\ Done => results[k].order = None
                   /\ (Done /\ LinesGivenById(orders[k])
                       /\ ~RejectsRow(create_single_order(orders[k]), errorPolicy)
                       /\ \A i \in DOMAIN FulfillmentLinesOf(orders[k]) :
                             LET fl == FulfillmentLinesOf(orders[k])[i] IN
                             fl.orderLineIndex + 1 = idx =>
                                 InputPair(fl) = InputPair(orders[k].lines[idx]))
                      => \E j \in DOMAIN results[k].errors :
                            /\ results[k].errors[j].code = "INVALID_QUANTITY"
                            /\ results[k].errors[j].field = "order_line"
                            /\ results[k].errors[j].variant =
                                  orders[k].lines[idx].variantId
                            /\ results[k].errors[j].warehouse =
                                  orders[k].lines[idx].warehouse
    /\ (stockUpdatePolicy = SKIP /\ Done) =>
          \A k \in DOMAIN orders :
              /\ \A j \in DOMAIN results[k].errors :
                    results[k].errors[j].field # "order_line"
              /\ (OverFulfilled(orders[k])
                  /\ \A i \in DOMAIN orders : results[i].errors = <<>>)
                 => k \in Persisted

C14_Witness ==
    /\ Done
    /\ stockUpdatePolicy = UPDATE
    /\ orders = <<WithFirstFulfillmentLine(1, 1, 500, 0)>>
    /\ initial_stock = FixtureStock(100, 100, 100)
    /\ count = 0
    /\ results[1].order = None
    /\ results[1].errors[1].code = "INVALID_QUANTITY"
    /\ results[1].errors[1].field = "order_line"
    /\ results[1].errors[1].variant = 1
    /\ results[1].errors[1].warehouse = 1
    /\ db = EmptyDb

\* C15: an order with a fulfillment line whose orderLineIndex is not a
\* position of the order's lines is never persisted, under any error policy,
\* and its result has a null order and a critical NO_RELATED_ORDER_LINE error
\* on order_line_index that names the index.
C15_NoRelatedOrderLine ==
    \A k \in DOMAIN orders :
        \A i \in DOMAIN FulfillmentLinesOf(orders[k]) :
            LET fl == FulfillmentLinesOf(orders[k])[i] IN
            fl.orderLineIndex >= Len(orders[k].lines) =>
                /\ k \notin Persisted
                /\ Done =>
                      /\ results[k].order = None
                      /\ \E j \in DOMAIN results[k].errors :
                            /\ results[k].errors[j].code = "NO_RELATED_ORDER_LINE"
                            /\ results[k].errors[j].field = "order_line_index"
                            /\ results[k].errors[j].index = fl.orderLineIndex
                            /\ results[k].errors[j].critical

C15_Witness ==
    /\ Done
    /\ errorPolicy = IGNORE_FAILED
    /\ stockUpdatePolicy = SKIP
    /\ orders = <<WithFirstFulfillmentLine(1, 1, 5, 5)>>
    /\ count = 0
    /\ results[1].order = None
    /\ results[1].errors[1].code = "NO_RELATED_ORDER_LINE"
    /\ results[1].errors[1].field = "order_line_index"
    /\ results[1].errors[1].index = 5
    /\ db = EmptyDb

\* The fulfillment lines of the order that reference a line of it, by
\* position, and differ from it in the warehouse, or in the variant only.
WarehouseMismatches(order_input) ==
    {i \in DOMAIN FulfillmentLinesOf(order_input) :
        LET fl == FulfillmentLinesOf(order_input)[i] IN
        /\ fl.orderLineIndex < Len(order_input.lines)
        /\ order_input.lines[fl.orderLineIndex + 1].warehouse # fl.warehouse}

VariantMismatches(order_input) ==
    {i \in DOMAIN FulfillmentLinesOf(order_input) :
        LET fl == FulfillmentLinesOf(order_input)[i] IN
        /\ fl.orderLineIndex < Len(order_input.lines)
        /\ order_input.lines[fl.orderLineIndex + 1].warehouse = fl.warehouse
        /\ order_input.lines[fl.orderLineIndex + 1].variantId # fl.variantId}

MismatchErrors(errors, field) ==
    {j \in DOMAIN errors :
        /\ errors[j].code = "ORDER_LINE_FULFILLMENT_LINE_MISMATCH"
        /\ errors[j].field = field}

\* C16: an order with a fulfillment line that differs from the order line it
\* references in the warehouse or in the variant is never persisted, under
\* any error policy; its result has a null order and one
\* ORDER_LINE_FULFILLMENT_LINE_MISMATCH error per such fulfillment line, on
\* warehouse when the warehouses differ and on variant_id otherwise.
C16_FulfillmentLineMismatch ==
    \A k \in DOMAIN orders :
        (LinesGivenById(orders[k])
         /\ WarehouseMismatches(orders[k]) \cup VariantMismatches(orders[k]) # {})
        => /\ k \notin Persisted
           /\ Done =>
                 /\ results[k].order = None
                 /\ Cardinality(MismatchErrors(results[k].errors, "warehouse"))
                       = Cardinality(WarehouseMismatches(orders[k]))
                 /\ Cardinality(MismatchErrors(results[k].errors, "variant_id"))
                       = Cardinality(VariantMismatches(orders[k]))
                 /\ \A j \in DOMAIN results[k].errors :
                       results[k].errors[j].code
                           = "ORDER_LINE_FULFILLMENT_LINE_MISMATCH"
                       => /\ results[k].errors[j].critical
                          /\ results[k].errors[j].field
                                \in {"warehouse", "variant_id"}

C16_Witness ==
    /\ Done
    /\ errorPolicy = IGNORE_FAILED
    /\ orders = <<WithFirstFulfillmentLine(3, 3, 5, 0)>>
    /\ count = 0
    /\ results[1].order = None
    /\ results[1].errors[1].code = "ORDER_LINE_FULFILLMENT_LINE_MISMATCH"
    /\ results[1].errors[1].field = "warehouse"
    /\ MismatchErrors(results[1].errors, "variant_id") = {}
    /\ db = EmptyDb

----------------------------------------------------------------------------
(* Access control *)

\* C17: a caller without manage_orders or without manage_orders_import never
\* gets past the permission check: nothing is validated, there is no result
\* list, no table gets a row and no stock row changes.
C17_PermissionDenied ==
    (manage_orders \notin user_permissions
     \/ manage_orders_import \notin user_permissions) =>
        /\ batchState \in {"IDLE", "DENIED"}
        /\ orders = <<>>
        /\ orders_data = <<>>
        /\ results = <<>>
        /\ count = 0
        /\ db = EmptyDb
        /\ stock = initial_stock

C17_Witness ==
    /\ batchState = "DENIED"
    /\ user_permissions = {manage_orders}
    /\ results = <<>>
    /\ db = EmptyDb
    /\ stock = initial_stock

----------------------------------------------------------------------------
(* Identifier resolver *)

\* The references of an order that are resolved by keys: its user and the
\* variant of each line.
References(order_input) ==
    <<[input |-> order_input.user, model |-> "User", key_map |-> UserKeyMap]>>
    \o [i \in DOMAIN order_input.lines |->
          [input |-> order_input.lines[i], model |-> "ProductVariant",
           key_map |-> VariantKeyMap]]

GivenKeys(ref) == {k \in DOMAIN ref.key_map : ref.input[k] # None}

\* What is wrong with the reference: "" when one key is given and resolves.
FailureOf(ref) ==
    IF Cardinality(GivenKeys(ref)) > 1 THEN "TOO_MANY_IDENTIFIERS"
    ELSE IF GivenKeys(ref) = {} THEN "REQUIRED"
    ELSE IF ~\E instance \in directory[ref.model] :
               \A k \in GivenKeys(ref) :
                   instance[ref.key_map[k]] = ref.input[k]
    THEN "NOT_FOUND"
    ELSE ""

\* The errors of the list that come from the resolver: they carry no field.
ResolverErrors(errors, code) ==
    {j \in DOMAIN errors : errors[j].code = code /\ errors[j].field = ""}

C18_ResolverErrors ==
    \A k \in DOMAIN orders :
        LET refs == References(orders[k])
            failing == {i \in DOMAIN refs : FailureOf(refs[i]) # ""}
        IN  /\ failing # {} => k \notin Persisted
            /\ Done =>
                  /\ failing # {} => results[k].order = None
                  /\ \A code \in {"REQUIRED", "TOO_MANY_IDENTIFIERS", "NOT_FOUND"} :
                        Cardinality(ResolverErrors(results[k].errors, code))
                            = Cardinality({i \in failing :
                                             FailureOf(refs[i]) = code})
                  /\ \A i \in failing :
                        FailureOf(refs[i]) = "NOT_FOUND" =>
                            \E j \in ResolverErrors(results[k].errors, "NOT_FOUND") :
                                \E given \in GivenKeys(refs[i]) :
                                    /\ results[k].errors[j].key
                                          = refs[i].key_map[given]
                                    /\ results[k].errors[j].value
                                          = refs[i].input[given]

C18_ResolutionReadsOnly == [][directory' = directory]_vars

\* C18: for the user of an order and for the variant of each line, no key
\* given yields one REQUIRED error, several keys given yield one
\* TOO_MANY_IDENTIFIERS error, and one key that no directory entry carries
\* yields one NOT_FOUND error that names the key and the value; an order with
\* such a reference is never persisted, and the directory is never written.
C18_ExactlyOneIdentifier == []C18_ResolverErrors /\ C18_ResolutionReadsOnly

C18_Witness ==
    /\ Done
    /\ Len(orders) = 1
    /\ ProvidedKeys(orders[1].user, UserKeyMap) = {"id", "email"}
    /\ orders[1].lines[1].variantId = None
    /\ orders[1].lines[1].variantSku = non_existing_sku
    /\ count = 0
    /\ results[1].order = None
    /\ \E i, j \in DOMAIN results[1].errors :
          /\ results[1].errors[i].code = "TOO_MANY_IDENTIFIERS"
          /\ results[1].errors[i].field = ""
          /\ results[1].errors[j].code = "NOT_FOUND"
          /\ results[1].errors[j].key = "sku"
          /\ results[1].errors[j].value = non_existing_sku
    /\ db = EmptyDb

NoUserKey(order_input) ==
    /\ order_input.user.id = None
    /\ order_input.user.email = None
    /\ order_input.user.externalReference = None

\* C19 as stated: an order whose user reference carries no key is an
\* anonymous order: when nothing else is wrong with it, it is persisted and
\* its result has no error.
C19_AnonymousUserAccepted ==
    Done =>
        \A k \in DOMAIN orders :
            (/\ NoUserKey(orders[k])
             /\ Len(orders) = 1
             /\ stockUpdatePolicy = SKIP
             /\ create_single_order([orders[k] EXCEPT !.user = user]).errors = <<>>)
            => /\ k \in Persisted
               /\ results[k].errors = <<>>

\* C19 amended: a user reference without any key is refused like any other
\* reference: the order is never persisted, under any error policy, and its
\* result has a null order and a REQUIRED error without a field.
C19_UserReferenceRequired ==
    \A k \in DOMAIN orders :
        NoUserKey(orders[k]) =>
            /\ k \notin Persisted
            /\ Done =>
                  /\ results[k].order = None
                  /\ \E j \in DOMAIN results[k].errors :
                        /\ results[k].errors[j].code = "REQUIRED"
                        /\ results[k].errors[j].field = ""
                        /\ results[k].errors[j].critical

C19_Witness ==
    /\ Done
    /\ stockUpdatePolicy = SKIP
    /\ orders = <<[order_bulk_input(1, 1, 1) EXCEPT !.user.id = None]>>
    /\ count = 0
    /\ results[1].order = None
    /\ Len(results[1].errors) = 1
    /\ results[1].errors[1].code = "REQUIRED"
    /\ results[1].errors[1].field = ""
    /\ db = EmptyDb

----------------------------------------------------------------------------
(* Delivery method *)

DeliveryErrors(errors) ==
    {j \in DOMAIN errors : errors[j].field = "delivery_method"}

\* C20: an order with both a shipping method and a warehouse gets one
\* TOO_MANY_IDENTIFIERS error on delivery_method, one with neither gets one
\* REQUIRED error on delivery_method, and neither is persisted; with exactly
\* one of the two there is no error on delivery_method, and with only the
\* warehouse an order that has no error is persisted with that warehouse as
\* collection point and no shipping method.
C20_DeliveryMethod ==
    \A k \in DOMAIN orders :
        LET dm == orders[k].deliveryMethod
            given == {f \in {"shippingMethodId", "warehouseId"} : dm[f] # None}
        IN  /\ Cardinality(given) # 1 => k \notin Persisted
            /\ \A row \in RowsOf("Order", k) :
                  /\ row.shipping_method = dm.shippingMethodId
                  /\ row.collection_point = dm.warehouseId
                  /\ row.shipping_method = None \/ row.collection_point = None
            /\ Done =>
                  /\ Cardinality(given) # 1 => results[k].order = None
                  /\ Cardinality(DeliveryErrors(results[k].errors))
                        = IF Cardinality(given) = 1 THEN 0 ELSE 1
                  /\ \A j \in DeliveryErrors(results[k].errors) :
                        results[k].errors[j].code =
                            IF given = {} THEN "REQUIRED"
                            ELSE "TOO_MANY_IDENTIFIERS"
                  /\ (given = {"warehouseId"}
                      /\ \A i \in DOMAIN orders : results[i].errors = <<>>)
                     => /\ k \in Persisted
                        /\ \E row \in RowsOf("Order", k) :
                              /\ row.collection_point = dm.warehouseId
                              /\ row.shipping_method = None

C20_Witness ==
    /\ Done
    /\ Len(orders) = 1
    /\ orders[1].deliveryMethod.shippingMethodId = None
    /\ orders[1].deliveryMethod.warehouseId = 1
    /\ count = 1
    /\ results[1].errors = <<>>
    /\ \E row \in db.Order :
          /\ row.id = 1
          /\ row.collection_point = 1
          /\ row.shipping_method = None

----------------------------------------------------------------------------
(* Line prices and order totals *)

Abs(x) == IF x < 0 THEN -x ELSE x

\* unit is total / quantity rounded to the hundredth: no hundredth is nearer.
IsRoundedQuotient(unit, total, quantity) ==
    /\ 2 * Abs(unit.gross * quantity - total.gross) <= quantity
    /\ 2 * Abs(unit.net * quantity - total.net) <= quantity

\* C21: for every assembled order line with a quantity q >= 1 and net <=
\* gross, and for every persisted order line, the unit price and the
\* undiscounted unit price (gross and net) are the corresponding total
\* divided by q, rounded to 2 decimal places; q = 5 with 120/100 gives
\* 24.00/20.00 and q = 3 with 20/10 gives 6.67/3.33.
C21_UnitPriceIsRoundedQuotient ==
    /\ \A k \in DOMAIN orders_data : \A i \in DOMAIN orders_data[k].lines :
          LET l == orders[k].lines[i]
              order_line == orders_data[k].lines[i]
          IN  (l.quantity >= 1 /\ PriceErrors(l) = <<>>) =>
                /\ IsRoundedQuotient(order_line.unit_price, l.totalPrice,
                                     l.quantity)
                /\ IsRoundedQuotient(order_line.undiscounted_unit_price,
                                     l.undiscountedTotalPrice, l.quantity)
                /\ (l.quantity = 5 /\ l.totalPrice = Price(120, 100))
                      => order_line.unit_price = [gross |-> 2400, net |-> 2000]
                /\ (l.quantity = 3 /\ l.totalPrice = Price(20, 10))
                      => order_line.unit_price = [gross |-> 667, net |-> 333]
                /\ (l.quantity = 3 /\ l.undiscountedTotalPrice = Price(20, 10))
                      => order_line.undiscounted_unit_price
                            = [gross |-> 667, net |-> 333]
    /\ \A row \in db.OrderLine :
          LET l == orders[row.order].lines[row.idx] IN
          /\ l.quantity >= 1
          /\ IsRoundedQuotient(row.unit_price, l.totalPrice, l.quantity)
          /\ IsRoundedQuotient(row.undiscounted_unit_price,
                               l.undiscountedTotalPrice, l.quantity)

C21_Witness ==
    /\ Done
    /\ count = 1
    /\ \E row \in db.OrderLine :
          /\ row.quantity = 3
          /\ orders[row.order].lines[row.idx].totalPrice = Price(20, 10)
          /\ orders[row.order].lines[row.idx].undiscountedTotalPrice
                = Price(20, 10)
          /\ row.unit_price = [gross |-> 667, net |-> 333]
          /\ row.undiscounted_unit_price = [gross |-> 667, net |-> 333]

----------------------------------------------------------------------------
(* The error list of one order *)

AddressFields == {"billing_address", "shipping_address"}

LineFields ==
    {"quantity", "total_price", "undiscounted_total_price",
     "tax_class_metadata", "tax_class_private_metadata"}

NoteFields == {"message", "app_id"}

\* Where an error stands among the address, line and note errors.
RankOf(error) ==
    IF error.field = "billing_address" THEN 1
    ELSE IF error.field = "shipping_address" THEN 2
    ELSE IF error.field \in LineFields THEN 3
    ELSE IF error.field \in NoteFields THEN 4
    ELSE 0

ErrorsOn(errors, fields) == {j \in DOMAIN errors : errors[j].field \in fields}

\* What is wrong with the input, counted on the input itself.
AsNumber(condition) == IF condition THEN 1 ELSE 0

AddressIsInvalid(address) == RequiredAddressFields \ address # {}

RECURSIVE LineDefects(_)
LineDefects(lines) ==
    IF lines = <<>> THEN 0
    ELSE LET l == Head(lines) IN
         AsNumber(l.quantity < 1)
         + AsNumber(l.totalPrice.net > l.totalPrice.gross)
         + AsNumber(l.undiscountedTotalPrice.net > l.undiscountedTotalPrice.gross)
         + AsNumber(\E i \in DOMAIN l.taxClassMetadata :
                        l.taxClassMetadata[i] = "")
         + AsNumber(\E i \in DOMAIN l.taxClassPrivateMetadata :
                        l.taxClassPrivateMetadata[i] = "")
         + LineDefects(Tail(lines))

RECURSIVE NoteDefects(_)
NoteDefects(notes) ==
    IF notes = <<>> THEN 0
    ELSE AsNumber(NoteIsSoftFailure(Head(notes))) + NoteDefects(Tail(notes))

\* C25: as soon as an order is assembled, and so before the policy decides,
\* its error list holds every validation error of the order, not only the
\* first: one per invalid address, per defect of a line and per refused
\* note, with the address errors (billing before shipping) before the line
\* errors before the note errors; the list of the result begins with it.
C25_AllErrorsInEncounterOrder ==
    \A k \in DOMAIN orders_data :
        LET errors == orders_data[k].errors
            input == orders[k]
        IN  /\ Cardinality(ErrorsOn(errors, {"billing_address"}))
                  = AsNumber(AddressIsInvalid(input.billingAddress))
            /\ Cardinality(ErrorsOn(errors, {"shipping_address"}))
                  = AsNumber(AddressIsInvalid(input.shippingAddress))
            /\ Cardinality(ErrorsOn(errors, LineFields)) = LineDefects(input.lines)
            /\ Cardinality(ErrorsOn(errors, NoteFields)) = NoteDefects(input.notes)
            /\ \A i, j \in DOMAIN errors :
                  (i < j /\ RankOf(errors[i]) # 0 /\ RankOf(errors[j]) # 0)
                  => RankOf(errors[i]) <= RankOf(errors[j])
            /\ \A j \in ErrorsOn(errors, AddressFields) :
                  errors[j].code = "INVALID"
            /\ Done =>
                  \A j \in DOMAIN errors :
                      RankOf(errors[j]) # 0 =>
                          /\ j \in DOMAIN results[k].errors
                          /\ results[k].errors[j] = errors[j]

C25_Witness ==
    /\ Done
    /\ Len(orders) = 1
    /\ orders[1].billingAddress = {"firstName"}
    /\ orders[1].shippingAddress = {"postalCode"}
    /\ orders[1].lines[1].quantity = 0
    /\ NoteIsSoftFailure(orders[1].notes[1])
    /\ count = 0
    /\ results[1].order = None
    /\ Len(results[1].errors) = 4
    /\ results[1].errors[1].field = "billing_address"
    /\ results[1].errors[1].code = "INVALID"
    /\ results[1].errors[2].field = "shipping_address"
    /\ results[1].errors[2].code = "INVALID"
    /\ results[1].errors[3].field = "quantity"
    /\ results[1].errors[4].field = "message"
    /\ db = EmptyDb

----------------------------------------------------------------------------
(* The total of the order *)

\* Sum of the gross or net totals of a set of OrderLine rows.
RECURSIVE SumOfLineTotals(_, _)
SumOfLineTotals(rows, part) ==
    IF rows = {} THEN 0
    ELSE LET row == CHOOSE r \in rows : TRUE IN
         row.total_price[part] + SumOfLineTotals(rows \ {row}, part)

\* C26: the total (gross and net) of a persisted order is the sum of the
\* total prices of its persisted lines, which are the totals of the input
\* lines, and the shipping price is not part of it: one line of 120/100 with
\* a shipping price of 120/100 gives 120/100, and lines of 120/100 and 60/50
\* give 180/150.
C26_TotalIsSumOfLines ==
    \A row \in db.Order :
        LET lines == orders[row.id].lines IN
        /\ \A part \in {"gross", "net"} :
              /\ row.total[part] = SumOfLineTotals(RowsOf("OrderLine", row.id), part)
              /\ \A line_row \in RowsOf("OrderLine", row.id) :
                    line_row.total_price[part] = lines[line_row.idx].totalPrice[part]
        /\ (Len(lines) = 1 /\ lines[1].totalPrice = Price(120, 100)
            /\ row.shipping_price = Price(120, 100))
              => row.total = Price(120, 100)
        /\ (Len(lines) = 2 /\ lines[1].totalPrice = Price(120, 100)
            /\ lines[2].totalPrice = Price(60, 50))
              => row.total = Price(180, 150)

C26_Witness ==
    /\ Done
    /\ count = 1
    /\ \E row \in db.Order :
          /\ Len(orders[row.id].lines) = 2
          /\ orders[row.id].lines[1].totalPrice = Price(120, 100)
          /\ orders[row.id].lines[2].totalPrice = Price(60, 50)
          /\ row.shipping_price = Price(120, 100)
          /\ row.total = Price(180, 150)

----------------------------------------------------------------------------
(* The returned count *)

\* C27: when the call returns, under every error policy and stock policy,
\* the count is the number of results with an order, which is the number of
\* rows the call has added to the Order table.
C27_CountIsCreated ==
    Done =>
        /\ count = Cardinality(Created)
        /\ count = Cardinality(db.Order)
        /\ Created = Persisted

C27_Witness ==
    /\ Done
    /\ errorPolicy = IGNORE_FAILED
    /\ Len(orders) = 2
    /\ results[1].order = None
    /\ results[2].order # None
    /\ results[2].errors # <<>>
    /\ count = 1
    /\ Cardinality(db.Order) = 1

----------------------------------------------------------------------------
(* Several orders on one stock row *)

\* What the orders 1..n in K have ordered on the pair, on the assembled lines.
RECURSIVE TotalRequired(_, _, _)
TotalRequired(n, K, pair) ==
    IF n = 0 THEN 0
    ELSE (IF n \in K THEN QuantityOrdered(orders_data[n].lines, pair) ELSE 0)
         + TotalRequired(n - 1, K, pair)

\* C29 as stated: under UPDATE no row ends below zero, and what is taken from
\* a row is the total ordered quantity of the persisted orders on its pair,
\* which does not exceed the initial quantity.
C29_RemovedIsOrdered ==
    (Done /\ stockUpdatePolicy = UPDATE) =>
        \A pair \in DOMAIN stock :
            /\ stock[pair] >= 0
            /\ initial_stock[pair] - stock[pair]
                  = TotalRequired(Len(orders), Persisted, pair)
            /\ TotalRequired(Len(orders), Persisted, pair) <= initial_stock[pair]

\* C29 amended: under UPDATE no row ever goes below zero.  What is taken from
\* a row is the total fulfilled quantity of the persisted orders on its pair
\* and of no other order; it is at most their total ordered quantity, which
\* does not exceed the initial quantity, also when each order fits the row
\* on its own and the orders together do not.
C29_NeverOversold ==
    stockUpdatePolicy = UPDATE =>
        \A pair \in DOMAIN stock :
            /\ stock[pair] >= 0
            /\ Done =>
                  /\ initial_stock[pair] - stock[pair]
                        = TotalShipped(Len(orders), Persisted, pair)
                  /\ TotalShipped(Len(orders), Persisted, pair)
                        <= TotalRequired(Len(orders), Persisted, pair)
                  /\ TotalRequired(Len(orders), Persisted, pair)
                        <= initial_stock[pair]

C29_Witness ==
    /\ Done
    /\ stockUpdatePolicy = UPDATE
    /\ errorPolicy = REJECT_FAILED_ROWS
    /\ Len(orders) = 2
    /\ <<1, 1>> \in DOMAIN initial_stock
    /\ \A k \in DOMAIN orders :
          /\ create_single_order(orders[k]).errors = <<>>
          /\ OrderedOn(orders[k], <<1, 1>>) > 0
          /\ OrderedOn(orders[k], <<1, 1>>) <= initial_stock[<<1, 1>>]
    /\ TotalOrdered(2, {1, 2}, <<1, 1>>) > initial_stock[<<1, 1>>]
    /\ ShippedOn(orders[1], <<1, 1>>) < OrderedOn(orders[1], <<1, 1>>)
    /\ Persisted = {1}
    /\ "INSUFFICIENT_STOCK" \in Codes(results[2].errors)
    /\ stock[<<1, 1>>] = initial_stock[<<1, 1>>] - ShippedOn(orders[1], <<1, 1>>)

----------------------------------------------------------------------------
(* The error policies compared *)

\* The orders of the submitted batch that are persisted under an error
\* policy, with the same rows and the same stock policy.
PersistedUnder(error_policy) ==
    KeptUnder(orders, initial_stock, error_policy, stockUpdatePolicy)

----------------------------------------------------------------------------
(* Rejections and their errors *)

\* The order passes on its own: no error of its own validation.
ValidOnItsOwn(order_input) == create_single_order(order_input).errors = <<>>

----------------------------------------------------------------------------
(* The state machine of the batch *)

C22_NothingWritten ==
    batchState \in {"VALIDATING", "REJECTED"} =>
        /\ db = EmptyDb
        /\ stock = initial_stock
        /\ results = <<>>

C22_Transitions ==
    /\ batchState' # batchState =>
          \/ batchState = "IDLE" /\ batchState' \in {"VALIDATING", "DENIED"}
          \/ batchState = "VALIDATING" /\ batchState' \in {"COMMITTING", "REJECTED"}
          \/ batchState \in {"COMMITTING", "REJECTED"} /\ batchState' = "DONE"
    /\ orders' # orders => (batchState = "IDLE" /\ batchState' = "VALIDATING")
    /\ batchState = "REJECTED" => (db' = db /\ stock' = stock)
    /\ batchState \in {"DONE", "DENIED"} => UNCHANGED vars

C22_Terminates == (batchState = "VALIDATING") ~> (batchState = "DONE")

\* C22: a batch starts in VALIDATING, leaves it once, for COMMITTING or for
\* REJECTED, never comes back to it, and always reaches the terminal state;
\* no table and no stock row is written while it is in VALIDATING, nor once
\* it is REJECTED, and nothing changes after the terminal state.
C22_BatchStateMachine ==
    /\ []C22_NothingWritten
    /\ [][C22_Transitions]_vars
    /\ C22_Terminates

C22_Witness ==
    /\ batchState = "REJECTED"
    /\ stockUpdatePolicy = UPDATE
    /\ Len(orders) = 2
    /\ orders_data[1].errors = <<>>
    /\ orders_data[2].errors # <<>>
    /\ ShippedOn(orders[1], <<1, 1>>) > 0
    /\ stocks_map # initial_stock
    /\ db = EmptyDb
    /\ stock = initial_stock

\* The stock rows are written only after every order of the batch has been
\* validated and the reconciler has been over every order.
C24_AggregationComplete ==
    /\ Len(orders_data) = Len(orders)
    /\ stockUpdatePolicy # SKIP => reconciled = Len(orders)

C24_NoEarlyDecrement == stock # initial_stock => C24_AggregationComplete

C24_DecrementAfterAggregation ==
    [][stock' # stock =>
          /\ C24_AggregationComplete
          /\ batchState = "COMMITTING"
          /\ stocks_map' = stocks_map
          /\ orders_data' = orders_data]_vars

\* C24: within a batch the reconciler has been over every order before the
\* first stock row is decremented: in no state has a row changed while an
\* order is still to be validated or reconciled, and the step that changes a
\* row leaves the aggregation as it is.
C24_AggregationBeforeDecrement ==
    []C24_NoEarlyDecrement /\ C24_DecrementAfterAggregation

C24_Witness ==
    /\ batchState = "COMMITTING"
    /\ stockUpdatePolicy = UPDATE
    /\ Len(orders) = 2
    /\ reconciled = 2
    /\ saved = 1
    /\ stock # initial_stock
    /\ stock # stocks_map

----------------------------------------------------------------------------
(* A stock operation next to the batch *)

\* What the outside operation has added to the row, once it has written.
OtherChange(pair) ==
    IF other_op.pc = "done" /\ other_op.row = pair THEN other_op.change ELSE 0

\* C23: when the batch and the outside operation have both come to their
\* end, under UPDATE and FORCE every stock row holds its initial quantity,
\* less what the persisted orders of the batch took, plus what the outside
\* operation added, in whatever order the two have taken their steps.
C23_NoLostUpdate ==
    (Done /\ other_op.pc \in {"idle", "done"} /\ stockUpdatePolicy # SKIP) =>
        \A pair \in DOMAIN stock :
            stock[pair] = initial_stock[pair]
                          - TotalShipped(Len(orders), Persisted, pair)
                          + OtherChange(pair)

C23_Witness ==
    /\ Done
    /\ stockUpdatePolicy = UPDATE
    /\ other_op.pc = "done"
    /\ other_op.began = "COMMITTING"
    /\ TotalShipped(Len(orders), Persisted, other_op.row) > 0
    /\ stock[other_op.row] = initial_stock[other_op.row]
                             - TotalShipped(Len(orders), Persisted, other_op.row)
                             + other_op.change

====
